---- MODULE Spec2Model ----
(***************************************************************************)
(* A state-machine model of the catalog service's storage layer            *)
(* (backend/app/storage/database.py), query translator                     *)
(* (backend/app/gclql_query_parser.py) and file watcher                    *)
(* (backend/app/services/file_watcher.py).                                 *)
(*                                                                         *)
(* The module holds several specifications over one set of variables:      *)
(*   SpecMerge   sequential ingestion and update_entity on the main table  *)
(*   SpecConc    concurrent import_fcc_dict / update_entity transactions   *)
(*   SpecSchema  replicas running Database.setup against one database      *)
(*   SpecPool    perform_search requests on the connection pool            *)
(*   SpecQuery   the query AST and SqlTranslator.translate                 *)
(*   SpecSchemaLive  SpecSchema with every replica kept running            *)
(*   SpecParse   /query/ requests sharing one QueryParser.parse_query      *)
(*   SpecOrder   parse_query over the sort fields and sort orders          *)
(*   SpecDropdown  get_dropdown_items over small catalogs                  *)
(*   SpecPath    navigation entities created from a dataset path           *)
(*   SpecField   Field.to_sql, the existence test and the ORDER BY field   *)
(*   SpecJoins   the aliases of the navigation tables in the three queries *)
(*   SpecNested  requests that open a session inside a session             *)
(*   SpecWatcher the polling cycle and the debounced processing of files   *)
(***************************************************************************)
EXTENDS Integers, Sequences, FiniteSets, TLC

VARIABLES
    main,       \* committed main table: name -> row, or NoRow
    last,       \* the most recent metadata merge: what was read, given, written
    nav,        \* committed navigation table: name -> id of the row, or NoId
    tx,         \* per task: its open transaction and uncommitted writes
    pc,         \* per task: the await it is suspended at
    req,        \* per task: the request it serves
    loc,        \* per task: the locals of the handler
    out,        \* per task: how the request ended
    pgProc,     \* names of the SQL functions installed in the database
    advisoryLock, \* advisory lock id -> the replica session holding it
    rpc,        \* per replica: the await of setup it is suspended at
    rloc,       \* per replica: schema_applied as read, and how setup ended
    ddlLog,     \* replicas that executed the bundled DDL, in order
    lockLog,    \* replicas that took the advisory lock, in order
    checkedOut, \* search requests holding a pooled connection
    qpc,        \* per search request: the await it is suspended at
    qloc,       \* per search request: _connection, the exception, the outcome
    stack,      \* the parser's stack of reduced AST nodes
    translation, \* the last translate(): its AST, SQL tokens and params
    parser,     \* the shared QueryParser: its translator's fields
    lists,      \* the list objects the translator's params has been bound to
    preq,       \* per /query/ request: its inputs, its await, what it holds
    catalog,    \* navigation tables and the main rows that reference them
    dd,         \* the dropdown request: inputs, locals, response
    ing,        \* the record being ingested by path: inputs and locals
    call,       \* a call of an SQL-text builder: its arguments and its result
    sess,       \* per client request: its handler, its await, the sessions it is in
    fw          \* the file watcher: the directory, _known_files, _pending_files

storeVars == <<main, last>>
taskVars == <<nav, tx, pc, req, loc, out>>
schemaVars == <<pgProc, advisoryLock, rpc, rloc, ddlLog, lockLog>>
poolVars == <<checkedOut, qpc, qloc>>
queryVars == <<stack, translation>>
parseVars == <<parser, lists, preq>>
navVars == <<catalog, dd, ing>>
\* the state of the specifications further down
sideVars == <<call, sess, fw>>
vars == <<main, last, nav, tx, pc, req, loc, out,
          pgProc, advisoryLock, rpc, rloc, ddlLog, lockLog,
          checkedOut, qpc, qloc, stack, translation,
          parser, lists, preq, catalog, dd, ing, call, sess, fw>>

(***************************************************************************)
(* Metadata keys.  A key is a sequence of tokens so that startswith and    *)
(* endswith are computed rather than assumed: "__" is one token, "lock"    *)
(* another, so "__f__lock__" is <<"__", "f", "__", "lock", "__">>.         *)
(***************************************************************************)
LockSuffix == <<"__", "lock", "__">>

\* f"__{key}__lock__"
LockFieldName(key) == <<"__">> \o key \o LockSuffix

StartsWith(key, prefix) ==
    /\ Len(key) >= Len(prefix)
    /\ SubSeq(key, 1, Len(prefix)) = prefix

EndsWith(key, suffix) ==
    /\ Len(key) >= Len(suffix)
    /\ SubSeq(key, Len(key) - Len(suffix) + 1, Len(key)) = suffix

\* key.startswith("__") and key.endswith("__lock__")
IsLockField(key) == StartsWith(key, <<"__">>) /\ EndsWith(key, LockSuffix)

KeyF == <<"f">>
Fields == {KeyF}
Keys == Fields \cup {LockFieldName(k) : k \in Fields}

\* JSON values; Python truthiness decides whether a sentinel locks.
FieldValues == {"v1", "v2"}
LockValues == {"true", "null"}
Truthy(v) == v \notin {"null", "false", ""}

ValuesOf(k) == IF IsLockField(k) THEN LockValues ELSE FieldValues

\* every metadata mapping over Keys (a dict: a function on a subset of Keys)
Metadata ==
    UNION { { m \in [D -> FieldValues \cup LockValues] :
                \A k \in D : m[k] \in ValuesOf(k) } : D \in SUBSET Keys }

EmptyMeta == [k \in {} |-> "null"]

\* dict.get(key, default)
Get(m, k, default) == IF k \in DOMAIN m THEN m[k] ELSE default

\* merged[key] = value
Put(m, k, v) == [x \in DOMAIN m \cup {k} |-> IF x = k THEN v ELSE m[x]]

\* merged.pop(key, None)
Pop(m, k) == [x \in DOMAIN m \ {k} |-> m[x]]

\* the keys of a payload in the order the loop visits them (dict order)
RECURSIVE KeyOrder(_)
KeyOrder(S) ==
    IF S = {} THEN <<>>
    ELSE LET k == CHOOSE x \in S : \A y \in S : Len(x) <= Len(y)
         IN <<k>> \o KeyOrder(S \ {k})

(***************************************************************************)
(* Database._merge_metadata_respecting_locks (ingestion).                  *)
(***************************************************************************)
RespectingLocksStep(existing, merged, key, value) ==
    IF IsLockField(key)
    THEN Put(merged, key, value)
    ELSE IF ~Truthy(Get(existing, LockFieldName(key), "false"))
         THEN Put(merged, key, value)
         ELSE merged

RECURSIVE RespectingLocksLoop(_, _, _, _)
RespectingLocksLoop(existing, merged, new, order) ==
    IF order = <<>> THEN merged
    ELSE RespectingLocksLoop(
             existing,
             RespectingLocksStep(existing, merged, Head(order), new[Head(order)]),
             new, Tail(order))

MergeFromPayloadOnly(existing, new) ==
    RespectingLocksLoop(existing, EmptyMeta, new, KeyOrder(DOMAIN new))

MergeMetadataRespectingLocks(existing, new) ==
    RespectingLocksLoop(existing, existing, new, KeyOrder(DOMAIN new))

(***************************************************************************)
(* Database._merge_metadata_with_locks (update_entity).                    *)
(***************************************************************************)
\* _handle_lock_field_update
HandleLockFieldUpdate(key, value, merged) ==
    IF value = "null" THEN Pop(merged, key) ELSE Put(merged, key, value)

\* _handle_regular_field_update
HandleRegularFieldUpdate(key, value, current, merged) ==
    IF ~Truthy(Get(current, LockFieldName(key), "false"))
    THEN Put(merged, key, value)
    ELSE merged

RECURSIVE WithLocksLoop(_, _, _, _)
WithLocksLoop(current, merged, new, order) ==
    IF order = <<>> THEN merged
    ELSE LET key == Head(order)
             step == IF IsLockField(key)
                     THEN HandleLockFieldUpdate(key, new[key], merged)
                     ELSE HandleRegularFieldUpdate(key, new[key], current, merged)
         IN WithLocksLoop(current, step, new, Tail(order))

\* _preserve_existing_lock_fields: re-assigns every sentinel of current
PreserveExistingLockFields(current, merged) ==
    [k \in DOMAIN merged \cup {x \in DOMAIN current : IsLockField(x)} |->
        IF k \in DOMAIN current /\ IsLockField(k) THEN current[k] ELSE merged[k]]

\* _handle_explicit_unlocks
HandleExplicitUnlocks(new, merged) ==
    [k \in DOMAIN merged \ {x \in DOMAIN new : IsLockField(x) /\ new[x] = "null"}
        |-> merged[k]]

MergeMetadataWithLocks(current, new) ==
    HandleExplicitUnlocks(new,
        WithLocksLoop(current, PreserveExistingLockFields(current, current),
                      new, KeyOrder(DOMAIN new)))

(***************************************************************************)
(* The main table.  Names are one character long; ILIKE is computed:       *)
(* case-insensitive, "_" matching any one character.  ON CONFLICT (name)   *)
(* needs a unique index on the column itself, so uniqueness is exact.      *)
(***************************************************************************)
Names == {"A", "a"}

Lower(c) == IF c = "A" THEN "a" ELSE c

\* value ILIKE pattern, for one-character strings
ILike(value, pattern) == pattern = "_" \/ Lower(value) = Lower(pattern)

NoId == "none"
NoRow == [present |-> FALSE]
\* a main row: its metadata, its navigation foreign key, and who wrote it last
Row(meta, fk, by) == [present |-> TRUE, meta |-> meta, fk |-> fk, by |-> by]
NoFk == [name |-> "none", id |-> NoId]

NoMerge == [kind |-> "none"]

\* SELECT metadata FROM main WHERE name ILIKE $1: the rows that match
MatchingRows(table, name) == {n \in DOMAIN table : table[n].present /\ ILike(n, name)}

\* INSERT ... ON CONFLICT (name) DO UPDATE SET every column but name
Upsert(table, name, meta, fk, by) == [table EXCEPT ![name] = Row(meta, fk, by)]

(***************************************************************************)
(* Tasks.  Each task serves one request on its own pooled connection.      *)
(* The store is PostgreSQL at READ COMMITTED: a statement sees what is     *)
(* committed plus its own transaction's writes; a write to a row or unique *)
(* key that another open transaction has written waits for that            *)
(* transaction to end; after a failed statement every further statement of *)
(* the transaction fails until it is rolled back, and COMMIT rolls back.   *)
(***************************************************************************)
Tasks == {"t1", "t2"}
NavNames == {"E"}
NoNav == "none"

NoRequest == [kind |-> "idle"]
NoTx == [state |-> "none", mainW |-> [n \in Names |-> NoRow], navW |-> {}]
NoLocals == [idx |-> 0, processed |-> 0, failed |-> 0, fk |-> NoFk,
             existing |-> NoRow, hitUnique |-> FALSE, conflict_counter |-> 1,
             updated_entity |-> NoRow]

TasksIdle ==
    /\ nav = [e \in NavNames |-> NoId]
    /\ tx = [t \in Tasks |-> NoTx]
    /\ pc = [t \in Tasks |-> "idle"]
    /\ req = [t \in Tasks |-> NoRequest]
    /\ loc = [t \in Tasks |-> NoLocals]
    /\ out = [t \in Tasks |-> "none"]

\* async with conn.transaction(): BEGIN
BeginTx == [NoTx EXCEPT !.state = "active"]

\* the transaction is open (its locks are held until it ends)
InProgress(t) == tx[t].state \in {"active", "aborted"}

\* a statement runs only while the transaction has not failed
StatementRuns(t) == tx[t].state = "active"

\* a statement raised inside the transaction block (no savepoint is taken)
StatementError(txrec) == [txrec EXCEPT !.state = "aborted"]

\* what the statements of task t see
ViewMain(t) == [n \in Names |-> IF tx[t].mainW[n].present THEN tx[t].mainW[n] ELSE main[n]]
ViewNav(t) == [e \in NavNames |-> IF e \in tx[t].navW THEN t ELSE nav[e]]

RowLockedByOther(t, n) ==
    \E u \in Tasks \ {t} : InProgress(u) /\ tx[u].mainW[n].present
NavPendingByOther(t, e) ==
    \E u \in Tasks \ {t} : InProgress(u) /\ e \in tx[u].navW

\* COMMIT of an open transaction: its writes become visible; of a failed one: ROLLBACK
CommittedMain(t) == IF tx[t].state = "active" THEN ViewMain(t) ELSE main
CommittedNav(t) == IF tx[t].state = "active" THEN ViewNav(t) ELSE nav

(***************************************************************************)
(* The parts of the state a specification does not use stay at rest.       *)
(***************************************************************************)
SCHEMA_ADVISORY_LOCK_ID == 1234567890
Replicas == {"r1", "r2", "r3"}
Requests == {"q1", "q2", "q3"}
NoReplicaLocals == [schema_applied |-> "unset", outcome |-> "none"]
NoRequestLocals == [connection |-> FALSE, exc |-> "none", outcome |-> "none"]
NoTranslation == [done |-> FALSE]

SchemaIdle ==
    /\ pgProc = {}
    /\ advisoryLock = (SCHEMA_ADVISORY_LOCK_ID :> NoId)
    /\ rpc = [r \in Replicas |-> "idle"]
    /\ rloc = [r \in Replicas |-> NoReplicaLocals]
    /\ ddlLog = <<>>
    /\ lockLog = <<>>

PoolIdle ==
    /\ checkedOut = {}
    /\ qpc = [q \in Requests |-> "idle"]
    /\ qloc = [q \in Requests |-> NoRequestLocals]

QueryIdle ==
    /\ stack = <<>>
    /\ translation = NoTranslation

ParseRequests == {"A", "B"}
NavKeys == {"accelerator", "stage", "campaign", "detector"}
NoParseRequest == [at |-> "idle"]
NoDropdown == [at |-> "idle"]
NoIngest == [at |-> "idle"]
EmptyCatalog == [nav |-> [k \in NavKeys |-> {}], rows |-> {}]

ParseIdle ==
    /\ parser = [available |-> {}, params |-> 1, param_index |-> 0]
    /\ lists = << <<>> >>
    /\ preq = [r \in ParseRequests |-> NoParseRequest]

NavIdle ==
    /\ catalog = EmptyCatalog
    /\ dd = NoDropdown
    /\ ing = NoIngest

NoCall == [at |-> "idle"]
Clients == {"c1", "c2", "c3"}
NoSession == [handler |-> "none", at |-> "idle", held |-> 0, inner |-> 0]
WatchedFiles == {"a.json", "b.json"}
NoFiles == [f \in WatchedFiles |-> 0]
WatcherIdle ==
    fw = [disk |-> NoFiles, known |-> NoFiles, pending |-> {}, detected |-> NoFiles,
          imported |-> NoFiles]
SideIdle ==
    /\ call = NoCall
    /\ sess = [c \in Clients |-> NoSession]
    /\ WatcherIdle

(***************************************************************************)
(* import_fcc_dict of one record, run alone: _create_main_entity reads the *)
(* metadata of a row matched by ILIKE (fetchval: the first row, in no      *)
(* stated order), merges, and upserts by exact name.                       *)
(***************************************************************************)
Ingest(name, payload) ==
    /\ LET matches == MatchingRows(main, name)
       IN IF matches = {}
          THEN /\ main' = Upsert(main, name, payload, NoFk, "seq")
               /\ last' = [kind |-> "ingest", name |-> name, source |-> "none",
                           existing |-> EmptyMeta, payload |-> payload,
                           merged |-> payload]
          ELSE \E src \in matches :
                 LET existing == main[src].meta
                     merged == MergeMetadataRespectingLocks(existing, payload)
                 IN /\ main' = Upsert(main, name, merged, NoFk, "seq")
                    /\ last' = [kind |-> "ingest", name |-> name, source |-> src,
                                existing |-> existing, payload |-> payload,
                                merged |-> merged]
    /\ UNCHANGED <<sideVars, parseVars, navVars, taskVars, schemaVars, poolVars, queryVars>>

(***************************************************************************)
(* update_entity with a metadata mapping, run alone: the row is found by   *)
(* primary key (here: its name), its metadata merged and written back.     *)
(***************************************************************************)
UpdateEntity(name, payload) ==
    /\ main[name].present
    /\ LET current == main[name].meta
           merged == MergeMetadataWithLocks(current, payload)
       IN /\ main' = [main EXCEPT ![name] = Row(merged, main[name].fk, "seq")]
          /\ last' = [kind |-> "update", name |-> name, source |-> name,
                      existing |-> current, payload |-> payload,
                      merged |-> merged]
    /\ UNCHANGED <<sideVars, parseVars, navVars, taskVars, schemaVars, poolVars, queryVars>>

InitStore ==
    /\ main = [n \in Names |-> NoRow]
    /\ last = NoMerge

InitMerge ==
    /\ InitStore /\ TasksIdle /\ SchemaIdle /\ PoolIdle /\ QueryIdle
    /\ ParseIdle /\ NavIdle /\ SideIdle

NextMerge ==
    \/ \E n \in Names, p \in Metadata : Ingest(n, p)
    \/ \E n \in Names, p \in Metadata : UpdateEntity(n, p)

SpecMerge == InitMerge /\ [][NextMerge]_vars

(***************************************************************************)
(* import_fcc_dict, one await at a time.                                   *)
(***************************************************************************)
Batch(t) == req[t].batch
Rec(t) == Batch(t)[loc[t].idx]

\* where the loop of _process_dataset_collection continues with record i
RecordPc(t, i) ==
    IF i > Len(Batch(t)) THEN "validate"
    ELSE IF Batch(t)[i].nav = NoNav THEN "mainSelect" ELSE "navSelect"

\* async with self.session() / conn.transaction(), then the first record
Begin(t) ==
    /\ pc[t] = "start" /\ req[t].kind = "import"
    /\ tx' = [tx EXCEPT ![t] = BeginTx]
    /\ loc' = [loc EXCEPT ![t] = [NoLocals EXCEPT !.idx = 1]]
    /\ pc' = [pc EXCEPT ![t] = RecordPc(t, 1)]
    /\ UNCHANGED <<sideVars, parseVars, navVars, schemaVars, poolVars, queryVars, main, last, nav, req, out>>

\* except Exception: failed_count += 1, and on to the next record
RecordFailed(l) == [l EXCEPT !.failed = @ + 1, !.idx = @ + 1,
                             !.fk = NoFk, !.existing = NoRow, !.conflict_counter = 1]
\* processed_count += 1
RecordProcessed(l) == [l EXCEPT !.processed = @ + 1, !.idx = @ + 1,
                                !.fk = NoFk, !.existing = NoRow,
                                !.conflict_counter = 1]

\* _get_or_create_entity: SELECT id FROM table WHERE name ILIKE $1
NavSelect(t) ==
    /\ pc[t] = "navSelect"
    /\ IF ~StatementRuns(t)
       THEN /\ loc' = [loc EXCEPT ![t] = RecordFailed(@)]
            /\ pc' = [pc EXCEPT ![t] = RecordPc(t, loc[t].idx + 1)]
       ELSE LET found == {e \in NavNames : ViewNav(t)[e] # NoId /\ ILike(e, Rec(t).nav)}
            IN IF found = {}
               THEN /\ pc' = [pc EXCEPT ![t] = "navInsert"]
                    /\ loc' = loc
               ELSE \E e \in found :
                      /\ loc' = [loc EXCEPT ![t].fk = [name |-> e, id |-> ViewNav(t)[e]]]
                      /\ pc' = [pc EXCEPT ![t] = "mainSelect"]
    /\ UNCHANGED <<sideVars, parseVars, navVars, schemaVars, poolVars, queryVars, main, last, nav, tx, req, out>>

\* _get_or_create_entity: INSERT ... RETURNING id, or UniqueViolationError
NavInsert(t) ==
    /\ pc[t] = "navInsert"
    /\ ~NavPendingByOther(t, Rec(t).nav)
    /\ IF nav[Rec(t).nav] # NoId
       THEN /\ tx' = [tx EXCEPT ![t] = StatementError(@)]
            /\ loc' = [loc EXCEPT ![t].hitUnique = TRUE]
            /\ pc' = [pc EXCEPT ![t] = "navReselect"]
       ELSE /\ tx' = [tx EXCEPT ![t].navW = @ \cup {Rec(t).nav}]
            /\ loc' = [loc EXCEPT ![t].fk = [name |-> Rec(t).nav, id |-> t]]
            /\ pc' = [pc EXCEPT ![t] = "mainSelect"]
    /\ UNCHANGED <<sideVars, parseVars, navVars, schemaVars, poolVars, queryVars, main, last, nav, req, out>>

\* except asyncpg.UniqueViolationError: record = await conn.fetchrow(query, name)
NavReselect(t) ==
    /\ pc[t] = "navReselect"
    /\ IF ~StatementRuns(t)
       THEN /\ loc' = [loc EXCEPT ![t] = RecordFailed(@)]
            /\ pc' = [pc EXCEPT ![t] = RecordPc(t, loc[t].idx + 1)]
       ELSE /\ loc' = [loc EXCEPT ![t].fk = [name |-> Rec(t).nav,
                                             id |-> ViewNav(t)[Rec(t).nav]]]
            /\ pc' = [pc EXCEPT ![t] = "mainSelect"]
    /\ UNCHANGED <<sideVars, parseVars, navVars, schemaVars, poolVars, queryVars, main, last, nav, tx, req, out>>

\* get_all_metadata / GenericEntityCreate raise on a record that does not
\* validate; otherwise _merge_metadata_with_locked_fields runs
\* SELECT metadata ... WHERE name ILIKE $1
MainSelect(t) ==
    /\ pc[t] = "mainSelect"
    /\ IF ~StatementRuns(t)
       THEN /\ loc' = [loc EXCEPT ![t] = RecordFailed(@)]
            /\ pc' = [pc EXCEPT ![t] = RecordPc(t, loc[t].idx + 1)]
       ELSE IF ~Rec(t).valid
       THEN /\ loc' = [loc EXCEPT ![t] = RecordFailed(@)]
            /\ pc' = [pc EXCEPT ![t] = RecordPc(t, loc[t].idx + 1)]
       ELSE LET matches == MatchingRows(ViewMain(t), Rec(t).name)
            IN /\ IF matches = {}
                  THEN loc' = [loc EXCEPT ![t].existing = NoRow]
                  ELSE \E src \in matches :
                          loc' = [loc EXCEPT ![t].existing =
                                     [present |-> TRUE, meta |-> ViewMain(t)[src].meta]]
               /\ pc' = [pc EXCEPT ![t] = "mainUpsert"]
    /\ UNCHANGED <<sideVars, parseVars, navVars, schemaVars, poolVars, queryVars, main, last, nav, tx, req, out>>

\* the metadata _create_main_entity hands to the upsert
MetadataToWrite(existing, new) ==
    IF existing.present
    THEN MergeMetadataRespectingLocks(existing.meta, new)
    ELSE new

\* _execute_upsert_query: INSERT ... ON CONFLICT (name) DO UPDATE
MainUpsert(t) ==
    /\ pc[t] = "mainUpsert"
    /\ ~RowLockedByOther(t, Rec(t).name)
    /\ tx' = [tx EXCEPT ![t].mainW =
                Upsert(@, Rec(t).name, MetadataToWrite(loc[t].existing, Rec(t).meta),
                       loc[t].fk, t)]
    /\ loc' = [loc EXCEPT ![t] = RecordProcessed(@)]
    /\ pc' = [pc EXCEPT ![t] = RecordPc(t, loc[t].idx + 1)]
    /\ UNCHANGED <<sideVars, parseVars, navVars, schemaVars, poolVars, queryVars, main, last, nav, req, out>>

\* the upsert raises a database error other than a name conflict
MainUpsertFails(t) ==
    /\ pc[t] = "mainUpsert"
    /\ tx' = [tx EXCEPT ![t] = StatementError(@)]
    /\ loc' = [loc EXCEPT ![t] = RecordFailed(@)]
    /\ pc' = [pc EXCEPT ![t] = RecordPc(t, loc[t].idx + 1)]
    /\ UNCHANGED <<sideVars, parseVars, navVars, schemaVars, poolVars, queryVars, main, last, nav, req, out>>

\* if conflict_counter > 10: raise RuntimeError
MaxConflicts == 10

\* _create_main_entity_with_conflict_resolution when the upsert raises
\* "duplicate key value violates unique constraint" (a unique index other than
\* the one ON CONFLICT (name) names): the statement has failed inside the
\* transaction block, the name becomes <name>_conflict_<n>, the counter grows,
\* and past MaxConflicts the record fails; otherwise the loop turns and
\* _create_main_entity starts again with its SELECT
MainUpsertConflict(t) ==
    /\ pc[t] = "mainUpsert"
    /\ tx' = [tx EXCEPT ![t] = StatementError(@)]
    /\ IF loc[t].conflict_counter + 1 > MaxConflicts
       THEN /\ loc' = [loc EXCEPT ![t] = RecordFailed(@)]
            /\ pc' = [pc EXCEPT ![t] = RecordPc(t, loc[t].idx + 1)]
       ELSE /\ loc' = [loc EXCEPT ![t].conflict_counter = @ + 1,
                                  ![t].existing = NoRow]
            /\ pc' = [pc EXCEPT ![t] = "mainSelect"]
    /\ UNCHANGED <<sideVars, parseVars, navVars, schemaVars, poolVars, queryVars, main, last, nav, req, out>>

\* the import threshold with "at least half" in place of "more than half"
ImportFailedAtHalf(processed, failed) ==
    processed + failed > 0 /\ 2 * failed >= processed + failed
\* _validate_import_success: failed_count > total_datasets / 2
ImportFailed(processed, failed) ==
    processed + failed > 0 /\ 2 * failed > processed + failed

\* the end of the transaction block: raise and ROLLBACK, or COMMIT
Validate(t) ==
    /\ pc[t] = "validate"
    /\ IF ImportFailed(loc[t].processed, loc[t].failed)
       THEN /\ out' = [out EXCEPT ![t] = "raised"]
            /\ UNCHANGED <<main, nav>>
       ELSE /\ out' = [out EXCEPT ![t] = "ok"]
            /\ main' = CommittedMain(t)
            /\ nav' = CommittedNav(t)
    /\ tx' = [tx EXCEPT ![t] = NoTx]
    /\ pc' = [pc EXCEPT ![t] = "done"]
    /\ UNCHANGED <<sideVars, parseVars, navVars, schemaVars, poolVars, queryVars, last, req, loc>>

(***************************************************************************)
(* update_entity with a metadata mapping, one await at a time.             *)
(***************************************************************************)
UBegin(t) ==
    /\ pc[t] = "start" /\ req[t].kind = "update"
    /\ tx' = [tx EXCEPT ![t] = BeginTx]
    /\ pc' = [pc EXCEPT ![t] = "uValidate"]
    /\ UNCHANGED <<sideVars, parseVars, navVars, schemaVars, poolVars, queryVars, main, last, nav, req, loc, out>>

\* _validate_entity_exists: raise ValueError when the row is missing
UValidate(t) ==
    /\ pc[t] = "uValidate"
    /\ IF ViewMain(t)[req[t].name].present
       THEN /\ pc' = [pc EXCEPT ![t] = "uRead"]
            /\ UNCHANGED <<tx, out>>
       ELSE /\ pc' = [pc EXCEPT ![t] = "done"]
            /\ tx' = [tx EXCEPT ![t] = NoTx]
            /\ out' = [out EXCEPT ![t] = "raised"]
    /\ UNCHANGED <<sideVars, parseVars, navVars, schemaVars, poolVars, queryVars, main, last, nav, req, loc>>

\* _get_current_metadata: SELECT metadata FROM main WHERE pk = $1
URead(t) ==
    /\ pc[t] = "uRead"
    /\ loc' = [loc EXCEPT ![t].existing =
                  [present |-> TRUE, meta |-> ViewMain(t)[req[t].name].meta]]
    /\ pc' = [pc EXCEPT ![t] = "uWrite"]
    /\ UNCHANGED <<sideVars, parseVars, navVars, schemaVars, poolVars, queryVars, main, last, nav, tx, req, out>>

\* _execute_update_query: UPDATE main SET metadata = $1 WHERE pk = $2
UWrite(t) ==
    /\ pc[t] = "uWrite"
    /\ ~RowLockedByOther(t, req[t].name)
    /\ tx' = [tx EXCEPT ![t].mainW =
                Upsert(@, req[t].name,
                       MergeMetadataWithLocks(loc[t].existing.meta, req[t].payload),
                       main[req[t].name].fk, t)]
    /\ pc' = [pc EXCEPT ![t] = "uFetch"]
    /\ UNCHANGED <<sideVars, parseVars, navVars, schemaVars, poolVars, queryVars, main, last, nav, req, loc, out>>

\* a SELECT on the connection that holds the transaction: it sees the
\* transaction's own writes
ReadInTransaction(t) == ViewMain(t)
\* a SELECT on another pooled connection: it sees what is committed
ReadOnOtherSession(t) == main

\* updated_entity = await self.get_entity_by_id(entity_id): get_entities_by_ids
\* opens its own self.session(), a second pooled connection, while the
\* UPDATE of connection one is not committed
UFetch(t) ==
    /\ pc[t] = "uFetch"
    /\ IF ReadOnOtherSession(t)[req[t].name].present
       THEN /\ loc' = [loc EXCEPT ![t].updated_entity =
                         [present |-> TRUE,
                          meta |-> ReadOnOtherSession(t)[req[t].name].meta]]
            /\ pc' = [pc EXCEPT ![t] = "uCommit"]
            /\ UNCHANGED <<tx, out>>
       ELSE /\ pc' = [pc EXCEPT ![t] = "done"]
            /\ tx' = [tx EXCEPT ![t] = NoTx]
            /\ out' = [out EXCEPT ![t] = "raised"]
            /\ UNCHANGED loc
    /\ UNCHANGED <<sideVars, parseVars, navVars, schemaVars, poolVars, queryVars, main, last, nav, req>>

\* the end of update_entity's transaction block: COMMIT
UCommit(t) ==
    /\ pc[t] = "uCommit"
    /\ main' = CommittedMain(t)
    /\ nav' = CommittedNav(t)
    /\ tx' = [tx EXCEPT ![t] = NoTx]
    /\ out' = [out EXCEPT ![t] = "ok"]
    /\ pc' = [pc EXCEPT ![t] = "done"]
    /\ UNCHANGED <<sideVars, parseVars, navVars, schemaVars, poolVars, queryVars, last, req, loc>>

(***************************************************************************)
(* SpecConc: task t1 imports a batch; task t2 imports a short batch or     *)
(* updates a row, over a main table that is empty or holds row A.          *)
(***************************************************************************)
MaxBatch == 3

RecordMetas == {(KeyF :> "v2")}
\* a record that does not validate fails whatever its name is
ImportRecords ==
    {r \in [name : Names, nav : NavNames \cup {NoNav}, meta : RecordMetas,
            valid : BOOLEAN] : r.valid \/ (r.name = "A" /\ r.nav = "E")}
BatchesUpTo(n) == UNION {[1..k -> ImportRecords] : k \in 0..n}
ImportRequests(n) == {[kind |-> "import", batch |-> b] : b \in BatchesUpTo(n)}
UpdateRequests ==
    {[kind |-> "update", name |-> n, payload |-> (LockFieldName(KeyF) :> "true")] :
        n \in Names}

InitialTables ==
    { [n \in Names |-> NoRow],
      [n \in Names |-> IF n = "A" THEN Row((KeyF :> "v1"), NoFk, "seq") ELSE NoRow] }

InitConc ==
    /\ main \in InitialTables
    /\ last = NoMerge
    /\ nav = [e \in NavNames |-> NoId]
    /\ tx = [t \in Tasks |-> NoTx]
    /\ pc = [t \in Tasks |-> "start"]
    /\ req \in {r \in [Tasks -> ImportRequests(MaxBatch) \cup UpdateRequests] :
                  /\ r["t1"].kind = "import"
                  /\ r["t2"].kind = "import" => Len(r["t2"].batch) <= 1}
    /\ loc = [t \in Tasks |-> NoLocals]
    /\ out = [t \in Tasks |-> "none"]
    /\ SchemaIdle /\ PoolIdle /\ QueryIdle /\ ParseIdle /\ NavIdle /\ SideIdle

NextConc ==
    \E t \in Tasks :
        \/ Begin(t)
        \/ NavSelect(t)
        \/ NavInsert(t)
        \/ NavReselect(t)
        \/ MainSelect(t)
        \/ MainUpsert(t)
        \/ MainUpsertFails(t)
        \/ MainUpsertConflict(t)
        \/ Validate(t)
        \/ UBegin(t)
        \/ UValidate(t)
        \/ URead(t)
        \/ UWrite(t)
        \/ UFetch(t)
        \/ UCommit(t)

SpecConc == InitConc /\ [][NextConc]_vars

(***************************************************************************)
(* Database.setup on several replicas of the service against one database. *)
(* pg_advisory_lock is exclusive and held by the session until unlocked.   *)
(* The bundled DDL installs jsonb_values_to_text; it runs in a transaction *)
(* and so either installs everything or, when it raises, nothing.          *)
(***************************************************************************)
SchemaSentinel == "jsonb_values_to_text"

\* the check with the sentinel never found
SchemaNeverFound(functions) == FALSE
\* _check_schema_applied: SELECT EXISTS(... p.proname = 'jsonb_values_to_text')
CheckSchemaApplied(functions) == SchemaSentinel \in functions

\* setup: _create_connection_pool, then _apply_database_schema opens a session
CreatePool(r) ==
    /\ rpc[r] = "start"
    /\ rpc' = [rpc EXCEPT ![r] = "lock"]
    /\ UNCHANGED <<sideVars, parseVars, navVars, storeVars, taskVars, poolVars, queryVars,
                   pgProc, advisoryLock, rloc, ddlLog, lockLog>>

\* await conn.execute("SELECT pg_advisory_lock($1)", SCHEMA_ADVISORY_LOCK_ID)
TakeAdvisoryLock(r) ==
    /\ rpc[r] = "lock"
    /\ advisoryLock[SCHEMA_ADVISORY_LOCK_ID] = NoId
    /\ advisoryLock' = [advisoryLock EXCEPT ![SCHEMA_ADVISORY_LOCK_ID] = r]
    /\ lockLog' = Append(lockLog, r)
    /\ rpc' = [rpc EXCEPT ![r] = "check"]
    /\ UNCHANGED <<sideVars, parseVars, navVars, storeVars, taskVars, poolVars, queryVars, pgProc, rloc, ddlLog>>

\* schema_applied = await self._check_schema_applied(conn)
CheckSchema(r) ==
    /\ rpc[r] = "check"
    /\ LET found == CheckSchemaApplied(pgProc)
       IN /\ rloc' = [rloc EXCEPT ![r].schema_applied = IF found THEN "yes" ELSE "no"]
          /\ rpc' = [rpc EXCEPT ![r] = IF found THEN "unlock" ELSE "ddl"]
    /\ UNCHANGED <<sideVars, parseVars, navVars, storeVars, taskVars, poolVars, queryVars,
                   pgProc, advisoryLock, ddlLog, lockLog>>

\* a try block with no finally: an exception leaves with the lock held
AfterTryWithoutFinally(outcome) == IF outcome = "error" THEN "done" ELSE "unlock"
\* try: ... finally: whichever way the try block is left, the unlock runs next
AfterTry(outcome) == "unlock"

\* _check_schema_applied raises (the query fails): the error leaves the try
CheckSchemaFails(r) ==
    /\ rpc[r] = "check"
    /\ rloc' = [rloc EXCEPT ![r].outcome = "error"]
    /\ rpc' = [rpc EXCEPT ![r] = AfterTry("error")]
    /\ UNCHANGED <<sideVars, parseVars, navVars, storeVars, taskVars, poolVars, queryVars,
                   pgProc, advisoryLock, ddlLog, lockLog>>

\* async with conn.transaction(): await conn.execute(schema_sql)
ApplySchema(r) ==
    /\ rpc[r] = "ddl"
    /\ ddlLog' = Append(ddlLog, r)
    /\ pgProc' = pgProc \cup {SchemaSentinel}
    /\ rpc' = [rpc EXCEPT ![r] = "unlock"]
    /\ UNCHANGED <<sideVars, parseVars, navVars, storeVars, taskVars, poolVars, queryVars,
                   advisoryLock, rloc, lockLog>>

\* the DDL raises: the transaction rolls back and the error leaves the try
ApplySchemaFails(r) ==
    /\ rpc[r] = "ddl"
    /\ ddlLog' = Append(ddlLog, r)
    /\ rloc' = [rloc EXCEPT ![r].outcome = "error"]
    /\ rpc' = [rpc EXCEPT ![r] = AfterTry("error")]
    /\ UNCHANGED <<sideVars, parseVars, navVars, storeVars, taskVars, poolVars, queryVars,
                   pgProc, advisoryLock, lockLog>>

\* finally: await conn.execute("SELECT pg_advisory_unlock($1)", ...)
ReleaseAdvisoryLock(r) ==
    /\ rpc[r] = "unlock"
    /\ advisoryLock' = [advisoryLock EXCEPT ![SCHEMA_ADVISORY_LOCK_ID] = NoId]
    /\ rloc' = [rloc EXCEPT ![r].outcome = IF @ = "error" THEN "raised" ELSE "ok"]
    /\ rpc' = [rpc EXCEPT ![r] = "done"]
    /\ UNCHANGED <<sideVars, parseVars, navVars, storeVars, taskVars, poolVars, queryVars, pgProc, ddlLog, lockLog>>

InitSchema ==
    /\ InitStore /\ TasksIdle /\ PoolIdle /\ QueryIdle /\ ParseIdle /\ NavIdle /\ SideIdle
    /\ pgProc = {}
    /\ advisoryLock = (SCHEMA_ADVISORY_LOCK_ID :> NoId)
    /\ rpc = [r \in Replicas |-> "start"]
    /\ rloc = [r \in Replicas |-> NoReplicaLocals]
    /\ ddlLog = <<>>
    /\ lockLog = <<>>

NextSchema ==
    \E r \in Replicas :
        \/ CreatePool(r)
        \/ TakeAdvisoryLock(r)
        \/ CheckSchema(r)
        \/ CheckSchemaFails(r)
        \/ ApplySchema(r)
        \/ ApplySchemaFails(r)
        \/ ReleaseAdvisoryLock(r)

SpecSchema == InitSchema /\ [][NextSchema]_vars

\* what replica r can do next
ReplicaStep(r) ==
    \/ CreatePool(r)
    \/ TakeAdvisoryLock(r)
    \/ CheckSchema(r)
    \/ CheckSchemaFails(r)
    \/ ApplySchema(r)
    \/ ApplySchemaFails(r)
    \/ ReleaseAdvisoryLock(r)

\* every replica keeps running: a statement it awaits completes, and the
\* server grants the advisory lock to a session that waits for it once the
\* lock stays free
SpecSchemaLive ==
    InitSchema /\ [][NextSchema]_vars /\ \A r \in Replicas : WF_vars(ReplicaStep(r))

(***************************************************************************)
(* Database.session() around perform_search.  The pool hands out at most   *)
(* PoolSize connections; acquire waits while none is free.  A request can  *)
(* be cancelled at any await; asyncpg runs release shielded from it.       *)
(***************************************************************************)
PoolSize == 2

\* __aexit__ releasing only when the block ended without an exception
AExitReleasesOnSuccess(connection, exc_type) == connection /\ exc_type = "none"
\* AsyncSessionContextManager.__aexit__: if self._connection: release
AExitReleases(connection, exc_type) == connection

\* __aenter__: self._connection = await self._pool.acquire()
SessionEnter(q) ==
    /\ qpc[q] = "acquire"
    /\ Cardinality(checkedOut) < PoolSize
    /\ checkedOut' = checkedOut \cup {q}
    /\ qloc' = [qloc EXCEPT ![q].connection = TRUE]
    /\ qpc' = [qpc EXCEPT ![q] = "count"]
    /\ UNCHANGED <<sideVars, parseVars, navVars, storeVars, taskVars, schemaVars, queryVars>>

\* the request is cancelled while acquire is pending: __aenter__ raises
\* CancelledError with no connection taken, and the block is never entered
CancelAcquire(q) ==
    /\ qpc[q] = "acquire"
    /\ qloc' = [qloc EXCEPT ![q].exc = "cancelled", ![q].outcome = "cancelled"]
    /\ qpc' = [qpc EXCEPT ![q] = "done"]
    /\ UNCHANGED <<sideVars, parseVars, navVars, storeVars, taskVars, schemaVars, queryVars, checkedOut>>

\* total_records_result = await conn.fetchval(count_query, *params)
CountQuery(q) ==
    /\ qpc[q] = "count"
    /\ qpc' = [qpc EXCEPT ![q] = "fetch"]
    /\ UNCHANGED <<sideVars, parseVars, navVars, storeVars, taskVars, schemaVars, queryVars, checkedOut, qloc>>

\* records = await conn.fetch(...), then the rows are converted and returned
FetchRecords(q) ==
    /\ qpc[q] = "fetch"
    /\ qpc' = [qpc EXCEPT ![q] = "exit"]
    /\ UNCHANGED <<sideVars, parseVars, navVars, storeVars, taskVars, schemaVars, queryVars, checkedOut, qloc>>

\* except Exception as e: log and raise
QueryRaises(q) ==
    /\ qpc[q] \in {"count", "fetch"}
    /\ qloc' = [qloc EXCEPT ![q].exc = "error"]
    /\ qpc' = [qpc EXCEPT ![q] = "exit"]
    /\ UNCHANGED <<sideVars, parseVars, navVars, storeVars, taskVars, schemaVars, queryVars, checkedOut>>

\* CancelledError is thrown into the pending await; except Exception lets it by
CancelQuery(q) ==
    /\ qpc[q] \in {"count", "fetch"}
    /\ qloc' = [qloc EXCEPT ![q].exc = "cancelled"]
    /\ qpc' = [qpc EXCEPT ![q] = "exit"]
    /\ UNCHANGED <<sideVars, parseVars, navVars, storeVars, taskVars, schemaVars, queryVars, checkedOut>>

\* __aexit__(exc_type, exc_val, exc_tb), then the block's outcome
SessionExit(q) ==
    /\ qpc[q] = "exit"
    /\ checkedOut' = IF AExitReleases(qloc[q].connection, qloc[q].exc)
                     THEN checkedOut \ {q}
                     ELSE checkedOut
    /\ qloc' = [qloc EXCEPT ![q].outcome =
                  CASE qloc[q].exc = "none" -> "returned"
                    [] qloc[q].exc = "error" -> "raised"
                    [] OTHER -> "cancelled"]
    /\ qpc' = [qpc EXCEPT ![q] = "done"]
    /\ UNCHANGED <<sideVars, parseVars, navVars, storeVars, taskVars, schemaVars, queryVars>>

InitPool ==
    /\ InitStore /\ TasksIdle /\ SchemaIdle /\ QueryIdle /\ ParseIdle /\ NavIdle /\ SideIdle
    /\ checkedOut = {}
    /\ qpc = [q \in Requests |-> "acquire"]
    /\ qloc = [q \in Requests |-> NoRequestLocals]

NextPool ==
    \E q \in Requests :
        \/ SessionEnter(q)
        \/ CancelAcquire(q)
        \/ CountQuery(q)
        \/ FetchRecords(q)
        \/ QueryRaises(q)
        \/ CancelQuery(q)
        \/ SessionExit(q)

SpecPool == InitPool /\ [][NextPool]_vars

(***************************************************************************)
(* The query language.  The parser reduces a query to an AST bottom-up     *)
(* (AstTransformer); SqlTranslator.translate walks the AST.  SQL is a      *)
(* sequence of tokens; a placeholder is the token "$k", formatted from     *)
(* param_index as the code formats it.                                     *)
(***************************************************************************)
MaxNodes == 5

NoValue == [kind |-> "none", text |-> ""]
Str(text) == [kind |-> "str", text |-> text]
IsStr(v, text) == v.kind = "str" /\ v.text = text

Comparison(field, op, value) ==
    [type |-> "Comparison", field |-> field, op |-> op, value |-> value]
GlobalSearch(value, is_quoted) ==
    [type |-> "GlobalSearch", value |-> value, is_quoted |-> is_quoted]
And(left, right) == [type |-> "And", left |-> left, right |-> right]
Or(left, right) == [type |-> "Or", left |-> left, right |-> right]
Not(term) == [type |-> "Not", term |-> term]

\* schema_mapping and the metadata keys found in the database (the
\* QueryParser's catalog; the translator holds its own copy, set by reset)
SchemaMapping ==
    [base \in {"name", "last_edited_at", "metadata"} |-> <<"d.", base>>]
AvailableMetadataFields == {"k"}
GlobalSearchFields ==
    << <<"d.", "name">>, <<"jsonb_values_to_text(", "d.", "metadata", ")">> >>

\* "'a'->'b'" for the leading parts of a JSON path
RECURSIVE PathExpression(_)
PathExpression(parts) ==
    IF Len(parts) = 0 THEN <<>>
    ELSE <<"'", Head(parts), "'">>
         \o (IF Len(parts) > 1 THEN <<"->">> ELSE <<>>)
         \o PathExpression(Tail(parts))

JsonField(column, path) ==
    IF Len(path) > 1
    THEN column \o <<"->">> \o PathExpression(SubSeq(path, 1, Len(path) - 1))
                \o <<"->>", "'", path[Len(path)], "'">>
    ELSE column \o <<"->>", "'", path[1], "'">>

\* the names used here that end in "_name", by what stands before the suffix
Stems == {"accelerator", "stage", "file", "sample"}
\* if base_field[-5:] == "_name": base_field = base_field[:-5]
StripNameSuffix(name) ==
    IF \E stem \in Stems : name = stem \o "_name"
    THEN CHOOSE stem \in Stems : name = stem \o "_name"
    ELSE name

\* entity_fields
EntityFields == {"accelerator", "stage", "campaign", "detector", "software_stack"}

\* what to_sql does with base_field once it is known
Resolve(base, schema_mapping, parts, available) ==
    IF base \in DOMAIN schema_mapping
    THEN IF base = "metadata" /\ Len(parts) > 1
         THEN JsonField(schema_mapping[base], Tail(parts))
         ELSE schema_mapping[base]
    ELSE IF base \in EntityFields THEN <<"d.", base \o "_id">>
    ELSE IF base \in available
    THEN JsonField(schema_mapping["metadata"], parts)
    ELSE <<"d.", base>>

\* Field.to_sql for a string or absent value (no numeric cast)
ToSqlIn(schema_mapping, parts, available) ==
    Resolve(StripNameSuffix(parts[1]), schema_mapping, parts, available)

\* Field.to_sql under the schema mapping of a main table without navigation
ToSql(parts, available) == ToSqlIn(SchemaMapping, parts, available)

\* f"${self.param_index}"
PlaceholderTexts == <<"$1", "$2", "$3", "$4", "$5", "$6", "$7", "$8">>
Placeholder(param_index) == PlaceholderTexts[param_index]

\* str.strip() on the values used here
Strip(text) == IF text = " " THEN "" ELSE text

\* the translator's mutable state next to the emitted SQL
Emit(sql, params, param_index) ==
    [sql |-> sql, params |-> params, param_index |-> param_index]

\* _translate_field_exists
TranslateFieldExists(parts, sql_field, params, param_index, available) ==
    IF (parts[1] = "metadata" /\ Len(parts) > 1) \/ parts[1] \in available
    THEN LET json_path == IF parts[1] \in available
                          THEN parts ELSE Tail(parts)
         IN IF Len(json_path) = 1
            THEN Emit(<<"d.", "metadata", "?", Placeholder(param_index + 1)>>,
                      Append(params, Str(json_path[1])), param_index + 1)
            ELSE Emit(<<"jsonb_path_exists(", "d.", "metadata", ",",
                        Placeholder(param_index + 1), ")">>,
                      Append(params, [kind |-> "jsonpath", text |-> json_path]),
                      param_index + 1)
    ELSE Emit(sql_field \o <<"IS NOT NULL">>, params, param_index)

\* the value-less last_edited_at form keeping the index it took
PlaceholderKept(param_index) == param_index
\* self.param_index -= 1: the placeholder taken above is not used
PlaceholderGivenBack(param_index) == param_index - 1

SqlOp(op) ==
    CASE op = ":" -> "ILIKE"
      [] op = "=~" -> "~*"
      [] op = "!~" -> "!~*"
      [] OTHER -> op

\* _translate_comparison
TranslateComparison(node, params, param_index, available) ==
    LET sql_field == ToSql(node.field, available)
        is_last_edited_at ==
            node.field[1] = "last_edited_at"
            \/ sql_field[Len(sql_field)] = "last_edited_at"
        taken == param_index + 1
        param_value == IF node.op = ":"
                       THEN [kind |-> "pattern",
                             text |-> IF node.value.kind = "none" THEN "None"
                                      ELSE node.value.text]
                       ELSE node.value
    IN IF node.op = ":" /\ IsStr(node.value, "*")
       THEN TranslateFieldExists(node.field, sql_field, params, param_index, available)
       ELSE IF /\ node.op = ":" /\ is_last_edited_at
               /\ (IsStr(node.value, "") \/ node.value.kind = "none")
       THEN Emit(sql_field \o <<"IS NOT NULL">>, params, PlaceholderGivenBack(taken))
       ELSE IF is_last_edited_at /\ node.op \in {">", "<", ">=", "<=", "!="}
       THEN Emit(<<"(">> \o sql_field \o <<"IS NOT NULL", "AND">> \o sql_field
                    \o <<SqlOp(node.op), Placeholder(taken), ")">>,
                 Append(params, param_value), taken)
       ELSE Emit(sql_field \o <<SqlOp(node.op), Placeholder(taken)>>,
                 Append(params, param_value), taken)

\* _build_search_condition
BuildSearchCondition(field_name, placeholder, is_quoted) ==
    IF is_quoted
    THEN field_name \o <<"ILIKE", "'%'", "||", placeholder, "||", "'%'">>
    ELSE IF field_name = <<"jsonb_values_to_text(", "d.", "metadata", ")">>
    THEN <<"word_similarity(", placeholder, ",">> \o field_name \o <<")", ">", "0.4">>
    ELSE <<"similarity(", placeholder, ",">> \o field_name \o <<")", ">", "0.6">>

\* ' OR '.join(conditions)
RECURSIVE JoinOr(_)
JoinOr(conditions) ==
    IF Len(conditions) = 0 THEN <<>>
    ELSE Head(conditions)
         \o (IF Len(conditions) > 1 THEN <<"OR">> ELSE <<>>)
         \o JoinOr(Tail(conditions))

\* _build_global_search_clause: the clause and the placeholder it used
BuildGlobalSearchClause(search_term, is_quoted, field_list, param_offset) ==
    IF Strip(search_term) = "" \/ Len(field_list) = 0
    THEN [clause |-> <<"TRUE">>, placeholder |-> ""]
    ELSE LET placeholder == Placeholder(param_offset + 1)
         IN [clause |-> <<"(">> \o JoinOr([i \in 1..Len(field_list) |->
                            BuildSearchCondition(field_list[i], placeholder, is_quoted)])
                        \o <<")">>,
             placeholder |-> placeholder]

\* _translate_global_search
TranslateGlobalSearch(node, params, param_index) ==
    IF Strip(node.value) \in {"*", ""}
    THEN Emit(<<"TRUE">>, params, param_index)
    ELSE LET search_value == Strip(node.value)
             built == BuildGlobalSearchClause(search_value, node.is_quoted,
                                              GlobalSearchFields, param_index)
         IN IF built.placeholder # ""
            THEN Emit(built.clause, Append(params, Str(search_value)), param_index + 1)
            ELSE Emit(built.clause, params, param_index)

\* SqlTranslator.translate: the left operand is translated before the right
RECURSIVE Translate(_, _, _, _)
Translate(node, params, param_index, available) ==
    CASE node.type = "Comparison" ->
            TranslateComparison(node, params, param_index, available)
      [] node.type = "GlobalSearch" -> TranslateGlobalSearch(node, params, param_index)
      [] node.type = "Not" ->
            LET term == Translate(node.term, params, param_index, available)
            IN Emit(<<"NOT", "(">> \o term.sql \o <<")">>, term.params, term.param_index)
      [] node.type \in {"And", "Or"} ->
            LET left == Translate(node.left, params, param_index, available)
                right == Translate(node.right, left.params, left.param_index, available)
            IN Emit(<<"(">> \o left.sql
                       \o <<IF node.type = "And" THEN "AND" ELSE "OR">>
                       \o right.sql \o <<")">>,
                    right.params, right.param_index)

RECURSIVE NodeCount(_)
NodeCount(node) ==
    CASE node.type \in {"Comparison", "GlobalSearch"} -> 1
      [] node.type = "Not" -> 1 + NodeCount(node.term)
      [] OTHER -> 1 + NodeCount(node.left) + NodeCount(node.right)

RECURSIVE StackNodes(_)
StackNodes(st) == IF st = <<>> THEN 0 ELSE NodeCount(Head(st)) + StackNodes(Tail(st))

\* nodes of the AST once everything on the stack is joined into one tree
TreeSize(st) == StackNodes(st) + (IF Len(st) > 0 THEN Len(st) - 1 ELSE 0)

\* comparisons as the grammar admits them: field OP value?
Comparisons ==
    {Comparison(f, ":", v) :
        f \in {<<"name">>, <<"last_edited_at">>, <<"metadata", "k">>, <<"k">>},
        v \in {Str("*"), Str("x")}}
    \cup {Comparison(<<"last_edited_at">>, ":", v) : v \in {NoValue, Str("")}}
    \cup {Comparison(<<"metadata", "a", "b">>, ":", Str("*")),
          Comparison(<<"name">>, "=", Str("x")),
          Comparison(<<"last_edited_at">>, ">", Str("x")),
          Comparison(<<"metadata", "k">>, "=~", NoValue)}
GlobalSearches ==
    {GlobalSearch("*", FALSE), GlobalSearch("x", FALSE),
     GlobalSearch("x", TRUE), GlobalSearch(" ", TRUE)}
Leaves == Comparisons \cup GlobalSearches

\* AstTransformer.comparison / global_search: a leaf of the query is reduced
ReduceItem(leaf) ==
    /\ ~translation.done
    /\ TreeSize(Append(stack, leaf)) <= MaxNodes
    /\ stack' = Append(stack, leaf)
    /\ UNCHANGED <<sideVars, parseVars, navVars, storeVars, taskVars, schemaVars, poolVars, translation>>

\* AstTransformer.factor: NOT item
ReduceNot ==
    /\ Len(stack) >= 1
    /\ TreeSize(stack) + 1 <= MaxNodes
    /\ stack' = Append(SubSeq(stack, 1, Len(stack) - 1), Not(stack[Len(stack)]))
    /\ UNCHANGED <<sideVars, parseVars, navVars, storeVars, taskVars, schemaVars, poolVars, translation>>

\* AstTransformer.term: term AND factor
ReduceAnd ==
    /\ Len(stack) >= 2
    /\ stack' = Append(SubSeq(stack, 1, Len(stack) - 2),
                     And(stack[Len(stack) - 1], stack[Len(stack)]))
    /\ UNCHANGED <<sideVars, parseVars, navVars, storeVars, taskVars, schemaVars, poolVars, translation>>

\* AstTransformer.expr: expr OR term
ReduceOr ==
    /\ Len(stack) >= 2
    /\ stack' = Append(SubSeq(stack, 1, Len(stack) - 2),
                     Or(stack[Len(stack) - 1], stack[Len(stack)]))
    /\ UNCHANGED <<sideVars, parseVars, navVars, storeVars, taskVars, schemaVars, poolVars, translation>>

\* translator.reset(...); where_clause = translator.translate(ast)
TranslateQuery ==
    /\ Len(stack) = 1
    /\ LET ast == stack[1]
           t == Translate(ast, <<>>, 0, AvailableMetadataFields)
       IN translation' = [done |-> TRUE, ast |-> ast, sql |-> t.sql,
                          params |-> t.params, param_index |-> t.param_index]
    /\ stack' = <<>>
    /\ UNCHANGED <<sideVars, parseVars, navVars, storeVars, taskVars, schemaVars, poolVars>>

\* SqlTranslator.reset before the next query is parsed
ResetTranslator ==
    /\ translation.done
    /\ translation' = NoTranslation
    /\ UNCHANGED <<sideVars, parseVars, navVars, storeVars, taskVars, schemaVars, poolVars, stack>>

InitQuery ==
    /\ InitStore /\ TasksIdle /\ SchemaIdle /\ PoolIdle /\ ParseIdle /\ NavIdle /\ SideIdle
    /\ stack = <<>>
    /\ translation = NoTranslation

NextQuery ==
    \/ \E leaf \in Leaves : ReduceItem(leaf)
    \/ ReduceNot
    \/ ReduceAnd
    \/ ReduceOr
    \/ TranslateQuery
    \/ ResetTranslator

SpecQuery == InitQuery /\ [][NextQuery]_vars

(***************************************************************************)
(* QueryParser.parse_query on query text, for requests that share one      *)
(* QueryParser and one SqlTranslator (SpecParse, SpecOrder).  A query      *)
(* string is the sequence of its whitespace-separated lexemes; a quoted    *)
(* string is one lexeme made of several words.                             *)
(***************************************************************************)
MaxLexemes == 3

Word(w) == [kind |-> "word", words |-> <<w>>]
Quoted(words) == [kind |-> "quoted", words |-> words]

\* the lexemes queries are written with: the comparison head "k:" (a field and
\* its operator), values, the keyword AND, a lower-case "and", an unclosed
\* parenthesis, and quoted strings without and with the word "and"
Alphabet ==
    {Word("k:"), Word("x"), Word("*"), Word("AND"), Word("and"), Word("("),
     Quoted(<<"x", "y">>), Quoted(<<"x", "and", "y">>)}

QueryStrings == UNION {[1..n -> Alphabet] : n \in 0..MaxLexemes}

\* ' '.join(words)
RECURSIVE JoinSpace(_)
JoinSpace(words) ==
    IF Len(words) = 0 THEN ""
    ELSE IF Len(words) = 1 THEN words[1]
    ELSE words[1] \o " " \o JoinSpace(Tail(words))

\* the value a lexeme stands for (a quoted string without its quotes)
Text(lexeme) == JoinSpace(lexeme.words)

IsHead(lexeme) == lexeme = Word("k:")
\* ESCAPED_STRING, IDENTIFIER or ASTERISK where the grammar allows a value
\* after "field OP": there the keyword AND wins over IDENTIFIER
IsValueToken(lexeme) ==
    lexeme.kind = "quoted" \/ lexeme \in {Word("x"), Word("*"), Word("and")}

NoParse == [ok |-> FALSE, ast |-> NoValue, next |-> 0]
Parsed(ast, next) == [ok |-> TRUE, ast |-> ast, next |-> next]

\* ?item: comparison | global_search, read at position i.  Where an item is
\* expected the keyword AND is not acceptable, so "AND" is an IDENTIFIER
ParseItem(lexemes, i) ==
    IF i > Len(lexemes) \/ lexemes[i] = Word("(") THEN NoParse
    ELSE IF IsHead(lexemes[i])
    THEN IF i < Len(lexemes) /\ IsValueToken(lexemes[i + 1])
         THEN Parsed(Comparison(<<"k">>, ":", Str(Text(lexemes[i + 1]))), i + 2)
         ELSE Parsed(Comparison(<<"k">>, ":", NoValue), i + 1)
    ELSE Parsed(GlobalSearch(Text(lexemes[i]), lexemes[i].kind = "quoted"), i + 1)

\* ?term: term AND factor | factor; anything else after an item is a LarkError
RECURSIVE ParseTerm(_, _)
ParseTerm(lexemes, left) ==
    IF ~left.ok \/ left.next > Len(lexemes) THEN left
    ELSE IF lexemes[left.next] # Word("AND") THEN NoParse
    ELSE LET right == ParseItem(lexemes, left.next + 1)
         IN IF ~right.ok THEN NoParse
            ELSE ParseTerm(lexemes, Parsed(And(left.ast, right.ast), right.next))

\* self.transformer.transform(self.parser.parse(text)): ok = FALSE is a LarkError
Parse(lexemes) == ParseTerm(lexemes, ParseItem(lexemes, 1))

\* the words re.split sees: a quoted string's first word carries the opening
\* quote, its last word the closing one
SourceWords(lexeme) ==
    [i \in 1..Len(lexeme.words) |->
        [s |-> lexeme.words[i],
         open |-> lexeme.kind = "quoted" /\ i = 1,
         close |-> lexeme.kind = "quoted" /\ i = Len(lexeme.words)]]

RECURSIVE Flatten(_)
Flatten(lexemes) ==
    IF Len(lexemes) = 0 THEN <<>>
    ELSE SourceWords(Head(lexemes)) \o Flatten(Tail(lexemes))

\* r"\s+AND\s+" with re.IGNORECASE matches a word and/AND that has a word on
\* both sides, wherever it stands
IsSeparator(words, i) ==
    /\ 1 < i /\ i < Len(words)
    /\ words[i].s \in {"AND", "and"}
    /\ ~words[i].open /\ ~words[i].close

\* re.split: a match consumes the whitespace after it, so the word that
\* follows a separator is never one
RECURSIVE Split(_, _, _, _)
Split(words, i, part, after_separator) ==
    IF i > Len(words) THEN <<part>>
    ELSE IF IsSeparator(words, i) /\ ~after_separator
    THEN <<part>> \o Split(words, i + 1, <<>>, TRUE)
    ELSE Split(words, i + 1, Append(part, words[i]), FALSE)

NoLex == [ok |-> FALSE, lexemes |-> <<>>]
Lexed(lexeme, rest) ==
    IF rest.ok THEN [ok |-> TRUE, lexemes |-> <<lexeme>> \o rest.lexemes] ELSE NoLex

\* the lexer on one part: a quote without its partner is a LarkError
RECURSIVE Lex(_, _, _)
Lex(words, i, string) ==
    IF i > Len(words)
    THEN IF string = <<>> THEN [ok |-> TRUE, lexemes |-> <<>>] ELSE NoLex
    ELSE LET w == words[i]
         IN IF string = <<>>
            THEN IF w.open /\ w.close THEN Lexed(Quoted(<<w.s>>), Lex(words, i + 1, <<>>))
                 ELSE IF w.open THEN Lex(words, i + 1, <<w.s>>)
                 ELSE IF w.close THEN NoLex
                 ELSE Lexed(Word(w.s), Lex(words, i + 1, <<>>))
            ELSE IF w.open THEN NoLex
                 ELSE IF w.close
                 THEN Lexed(Quoted(Append(string, w.s)), Lex(words, i + 1, <<>>))
                 ELSE Lex(words, i + 1, Append(string, w.s))

\* one part of the split query as the parser reads it
ParseLexed(lexed) == IF lexed.ok THEN Parse(lexed.lexemes) ELSE NoParse
ParsePart(part) == ParseLexed(Lex(part, 1, <<>>))

\* a word as written, quotes included
SourceText(w) ==
    (IF w.open THEN "\"" ELSE "") \o w.s \o (IF w.close THEN "\"" ELSE "")

\* ' AND '.join(valid_clauses)
RECURSIVE JoinAnd(_)
JoinAnd(clauses) ==
    IF Len(clauses) = 0 THEN <<>>
    ELSE Head(clauses)
         \o (IF Len(clauses) > 1 THEN <<"AND">> ELSE <<>>)
         \o JoinAnd(Tail(clauses))

\* the loop of _build_hybrid_search_clause over the parts: a part that parses
\* is translated on the translator as the parts before it left it; a part
\* that raises LarkError goes to fuzzy_search_terms
ValidClause(acc, t) ==
    [acc EXCEPT !.valid_clauses = Append(@, t.sql),
                !.params = t.params,
                !.param_index = t.param_index]

\* a part that does not parse left out of the search
DroppedTerm(acc, part) == acc

FuzzyTerm(acc, part) ==
    [acc EXCEPT !.fuzzy_search_terms =
                    @ \o [j \in 1..Len(part) |-> SourceText(part[j])]]

HybridPart(acc, part, parsed) ==
    IF parsed.ok
    THEN ValidClause(acc, Translate(parsed.ast, acc.params, acc.param_index,
                                    acc.available))
    ELSE FuzzyTerm(acc, part)

RECURSIVE HybridParts(_, _, _)
HybridParts(parts, i, acc) ==
    IF i > Len(parts) THEN acc
    ELSE HybridParts(parts, i + 1, HybridPart(acc, parts[i], ParsePart(parts[i])))

\* re.findall(r'["\']([^"\']+)["\']', query_string) finds something
HasQuotedString(lexemes) == \E i \in 1..Len(lexemes) : lexemes[i].kind = "quoted"

\* _build_hybrid_search_clause: reset() is called without the metadata keys,
\* so the translator keeps the ones it has (available)
\* the end of _build_hybrid_search_clause: the fuzzy clause for the parts
\* that failed, and the clauses joined
CombineClauses(valid_clauses, all_params, done) ==
    [where |-> IF valid_clauses # <<>>
               THEN <<"(">> \o JoinAnd(valid_clauses) \o <<")">>
               ELSE <<"TRUE">>,
     all_params |-> all_params,
     params |-> done.params,
     param_index |-> done.param_index]

AddFuzzyClause(done, fuzzy_phrase, fuzzy_clause) ==
    IF done.fuzzy_search_terms = <<>>
    THEN CombineClauses(done.valid_clauses, done.params, done)
    ELSE CombineClauses(IF fuzzy_clause # <<"TRUE">>
                        THEN Append(done.valid_clauses, fuzzy_clause)
                        ELSE done.valid_clauses,
                        Append(done.params, Str(fuzzy_phrase)), done)

FuzzySearch(done, fuzzy_phrase, is_quoted) ==
    AddFuzzyClause(done, fuzzy_phrase,
                   BuildGlobalSearchClause(fuzzy_phrase, is_quoted, GlobalSearchFields,
                                           Len(done.params)).clause)

AfterParts(done, is_quoted) ==
    FuzzySearch(done, JoinSpace(done.fuzzy_search_terms), is_quoted)

BuildHybridSearchClause(lexemes, available) ==
    AfterParts(HybridParts(Split(Flatten(lexemes), 1, <<>>, FALSE), 1,
                           [valid_clauses |-> <<>>, fuzzy_search_terms |-> <<>>,
                            params |-> <<>>, param_index |-> 0,
                            available |-> available]),
               HasQuotedString(lexemes))

\* navigation_analysis["main_table_schema"]["primary_key"]
MainPrimaryKey == "dataset_id"

SortOrders == {"asc", "DESC", "up"}
\* sort_by, split at its dots
SortFields ==
    {<<"last_edited_at">>, <<"name">>, <<"k">>, <<"metadata", "k">>,
     <<"metadata", "a", "b">>}

\* str.lower() and str.upper() on the sort orders used here
SortLower(sort_order) == IF sort_order = "DESC" THEN "desc" ELSE sort_order
SortUpper(sort_order) ==
    CASE sort_order \in {"asc", "ASC"} -> "ASC"
      [] sort_order \in {"desc", "DESC"} -> "DESC"
      [] OTHER -> "UP"

\* an ORDER BY that ends after the sort field
NoSecondarySort(sort_order) == <<>>
\* f", {primary_key_field} {sort_order.upper()}"
SecondarySort(sort_order) == <<",", "d.", MainPrimaryKey, SortUpper(sort_order)>>

\* the sort_by string: the parts with their dots
RECURSIVE JoinDots(_)
JoinDots(parts) ==
    IF Len(parts) = 1 THEN parts[1] ELSE parts[1] \o "." \o JoinDots(Tail(parts))

\* the field of _build_order_by_clause: sort_by is split at its dots after
\* "metadata." only; any other sort_by is Field((sort_by,)), one part
OrderByField(sort_by, schema_mapping, available) ==
    IF sort_by[1] = "metadata" /\ Len(sort_by) > 1
    THEN JsonField(<<"d.", "metadata">>, Tail(sort_by))
    ELSE ToSqlIn(schema_mapping, <<JoinDots(sort_by)>>, available)

\* _build_order_by_clause
BuildOrderByClause(sort_by, sort_order) ==
    IF SortLower(sort_order) \notin {"asc", "desc"}
    THEN [raised |-> "ValueError", sql |-> <<>>]
    ELSE [raised |-> "none",
          sql |-> <<"ORDER BY">>
                  \o OrderByField(sort_by, SchemaMapping, AvailableMetadataFields)
                  \o <<SortUpper(sort_order)>> \o SecondarySort(sort_order)]

\* parse_query lets every exception of the strict parse go
RescuedNever(exception) == FALSE
\* except exceptions.LarkError: the hybrid approach takes over
RescuedByHybrid(exception) == exception = "LarkError"

Untouched == [touched |-> FALSE, available |-> {}, params |-> <<>>, param_index |-> 0]
Touched(available, params, param_index) ==
    [touched |-> TRUE, available |-> available, params |-> params,
     param_index |-> param_index]

\* parse_query as a function of its arguments and of the metadata keys the
\* translator holds when it is called: what it raises or returns (the WHERE
\* text, the ORDER BY text, the contents of the params list) and what it
\* leaves in the translator.  The ORDER BY is formatted after the WHERE clause
\* is built, so a ValueError leaves the translator changed.
Outcome(raised, path, where, order, params, translator) ==
    [raised |-> raised, path |-> path, where |-> where, order |-> order,
     params |-> params, translator |-> translator]

StrictOutcome(order, t) ==
    Outcome(order.raised, "strict", t.sql, order.sql, t.params,
            Touched(AvailableMetadataFields, t.params, t.param_index))

HybridOutcome(order, h, available) ==
    Outcome(order.raised, "hybrid", h.where, order.sql, h.all_params,
            Touched(available, h.params, h.param_index))

ParsedOutcome(query, order, strict, available) ==
    IF query = <<>>
    THEN Outcome(order.raised, "empty", <<>>, order.sql, <<>>, Untouched)
    ELSE IF strict.ok
    THEN StrictOutcome(order, Translate(strict.ast, <<>>, 0, AvailableMetadataFields))
    ELSE IF RescuedByHybrid("LarkError")
    THEN HybridOutcome(order, BuildHybridSearchClause(query, available), available)
    ELSE Outcome("LarkError", "strict", <<>>, <<>>, <<>>, Untouched)

ParseQueryOutcome(query, sort_by, sort_order, available) ==
    ParsedOutcome(query, BuildOrderByClause(sort_by, sort_order),
                  IF query = <<>> THEN NoParse ELSE Parse(query), available)

\* reset() emptying the list the translator already has
ClearInPlace(heap, ref) == [lists |-> [heap EXCEPT ![ref] = <<>>], params |-> ref]
\* self.params = []: the translator is bound to a new list object
Rebind(heap, ref) == [lists |-> Append(heap, <<>>), params |-> Len(heap) + 1]

\* SqlTranslator.__init__
FreshTranslator == [available |-> {}, params |-> 1, param_index |-> 0]

ParseRequest(query, sort_by, sort_order) ==
    [at |-> "start", q |-> query, sort_by |-> sort_by, sort_order |-> sort_order,
     raised |-> "none", path |-> "none", where |-> <<>>, order |-> <<>>,
     params |-> 0, returned |-> <<>>, passed |-> <<>>]

\* the translator's list after reset() and translate(), when they ran
Translated(o, reset) ==
    IF o.translator.touched
    THEN [lists |-> [reset.lists EXCEPT ![reset.params] = o.translator.params],
          params |-> reset.params]
    ELSE [lists |-> lists, params |-> parser.params]

\* what parse_query leaves behind: the strict path returns the translator's
\* own list, the other paths a list of their own
Returned(r, o, translated, own_list) ==
    /\ lists' = IF own_list THEN Append(translated.lists, o.params)
                ELSE translated.lists
    /\ parser' = IF o.translator.touched
                 THEN [available |-> o.translator.available,
                       params |-> translated.params,
                       param_index |-> o.translator.param_index]
                 ELSE parser
    /\ preq' = [preq EXCEPT ![r] =
                   [@ EXCEPT !.at = IF o.raised = "none" THEN "search" ELSE "raised",
                             !.raised = o.raised, !.path = o.path,
                             !.where = o.where, !.order = o.order,
                             !.params = IF o.raised # "none" THEN 0
                                        ELSE IF own_list THEN Len(translated.lists) + 1
                                        ELSE translated.params,
                             !.returned = o.params]]

ParseQuery(r, o) ==
    Returned(r, o, Translated(o, Rebind(lists, parser.params)),
             o.raised = "none" /\ o.path \in {"empty", "hybrid"})

\* execute_gclql_query up to its await: the sort_order check, then parse_query
\* (which has no await: it runs to its end before any other request moves)
ExecuteQuery(r) ==
    /\ preq[r].at = "start"
    /\ IF SortLower(preq[r].sort_order) \notin {"asc", "desc"}
       THEN /\ preq' = [preq EXCEPT ![r].at = "raised", ![r].raised = "HTTP400"]
            /\ UNCHANGED <<parser, lists>>
       ELSE ParseQuery(r, ParseQueryOutcome(preq[r].q, preq[r].sort_by,
                                            SortLower(preq[r].sort_order),
                                            parser.available))
    /\ UNCHANGED <<sideVars, storeVars, taskVars, schemaVars, poolVars, queryVars, navVars>>

\* await database.perform_search(count_query, search_query, search_query_params):
\* the list is read when the queries are sent
PerformSearch(r) ==
    /\ preq[r].at = "search"
    /\ preq' = [preq EXCEPT ![r].at = "done", ![r].passed = lists[preq[r].params]]
    /\ UNCHANGED <<sideVars, storeVars, taskVars, schemaVars, poolVars, queryVars, navVars,
                   parser, lists>>

\* queries that went before: none with a WHERE clause, a strictly parsed one,
\* a rescued one
History ==
    {<<>>, <<Word("k:"), Word("x")>>, <<Word("x"), Word("and"), Word("x")>>}

\* the other request: one of these queries, or one with an invalid sort_order
OtherRequests ==
    {ParseRequest(history, <<"last_edited_at">>, "desc") : history \in History}
    \cup {ParseRequest(<<Word("x")>>, <<"last_edited_at">>, "up")}

InitParser ==
    /\ InitStore /\ TasksIdle /\ SchemaIdle /\ PoolIdle /\ QueryIdle /\ NavIdle /\ SideIdle
    /\ parser = FreshTranslator
    /\ lists = << <<>> >>

InitParse ==
    /\ InitParser
    /\ \E query \in QueryStrings, other \in OtherRequests :
          preq = [r \in ParseRequests |->
                    IF r = "A" THEN ParseRequest(query, <<"last_edited_at">>, "desc")
                    ELSE other]

NextParse == \E r \in ParseRequests : ExecuteQuery(r) \/ PerformSearch(r)

SpecParse == InitParse /\ [][NextParse]_vars

\* the three kinds of query with every sort
InitOrder ==
    /\ InitParser
    /\ \E query \in History, sort_by \in SortFields, sort_order \in SortOrders,
          history \in History :
          preq = [r \in ParseRequests |->
                    IF r = "A" THEN ParseRequest(query, sort_by, sort_order)
                    ELSE ParseRequest(history, <<"last_edited_at">>, "desc")]

SpecOrder == InitOrder /\ [][NextParse]_vars

(***************************************************************************)
(* Database.get_dropdown_items over the navigation tables and the main     *)
(* rows that reference them (SpecDropdown).                                *)
(***************************************************************************)
MaxFilters == 1

\* the navigation tables that hold rows here; id 1 is named "A", id 2 "a"
DropdownKeys == {"accelerator", "stage"}
NavIds == {1, 2}
NavName(id) == IF id = 1 THEN "A" ELSE "a"
NavRow(id) == [id |-> id, name |-> NavName(id)]
NoRef == 0
MainRow(accelerator, stage) ==
    [accelerator |-> accelerator, stage |-> stage, campaign |-> NoRef,
     detector |-> NoRef]

\* tables that respect the foreign keys of the main table
Catalogs ==
    {[nav |-> [k \in NavKeys |->
                 IF k = "accelerator" THEN {NavRow(id) : id \in accelerators}
                 ELSE IF k = "stage" THEN {NavRow(id) : id \in stages}
                 ELSE {}],
      rows |-> rows] :
        accelerators \in SUBSET NavIds, stages \in SUBSET NavIds,
        rows \in SUBSET {MainRow(a, s) : a \in NavIds, s \in NavIds}}

ValidCatalog(c) ==
    \A row \in c.rows :
        /\ NavRow(row.accelerator) \in c.nav["accelerator"]
        /\ NavRow(row.stage) \in c.nav["stage"]

\* a filter_dict entry: the key is entity \o suffix
Filter(entity, suffix, value) == [entity |-> entity, suffix |-> suffix, value |-> value]
Filters ==
    {Filter(entity, "_name", value) :
        entity \in {"accelerator", "stage", "software"}, value \in {"A", "a", "_", "z"}}
    \cup {Filter("limit", "", "A")}

\* filter_dicts: no key twice
FilterDicts ==
    {fd \in UNION {[1..n -> Filters] : n \in 0..MaxFilters} :
        \A i, j \in 1..Len(fd) :
            (fd[i].entity = fd[j].entity /\ fd[i].suffix = fd[j].suffix) => i = j}

DropdownRequest(table_key, filter_dict) ==
    [at |-> "start", table_key |-> table_key, filter_dict |-> filter_dict,
     idx |-> 1, conditions |-> <<>>, data |-> {}, raised |-> "none"]

\* if table_key not in navigation_analysis["navigation_tables"]: raise ValueError
CheckTableKey ==
    /\ dd.at = "start"
    /\ dd' = IF dd.table_key \in NavKeys
             THEN [dd EXCEPT !.at = "filters"]
             ELSE [dd EXCEPT !.at = "raised", !.raised = "ValueError"]
    /\ UNCHANGED <<sideVars, storeVars, taskVars, schemaVars, poolVars, queryVars, parseVars,
                   catalog, ing>>

\* SELECT pk FROM table WHERE name ILIKE $1 with fetchval: the first row of a
\* result that has no order, or None
NameLookup(entity_key, filter_value) ==
    LET matching == {row.id : row \in {n \in catalog.nav[entity_key] :
                                           ILike(n.name, filter_value)}}
    IN IF matching = {} THEN {NoRef} ELSE matching

\* _process_name_filter for the filter at dd.idx, given what fetchval returned:
\* with no id the filter yields no condition
ProcessNameFilter(f, id_result) ==
    IF f.entity \notin NavKeys \/ id_result = NoRef
    THEN dd.conditions
    ELSE Append(dd.conditions, [column |-> f.entity, id |-> id_result])

\* one turn of the loop of _process_dropdown_filters (no filter key ends in
\* "_id" here; any other key is skipped)
ProcessFilter ==
    /\ dd.at = "filters"
    /\ dd.idx <= Len(dd.filter_dict)
    /\ LET f == dd.filter_dict[dd.idx]
       IN IF f.suffix = "_name"
          THEN \E id_result \in IF f.entity \in NavKeys
                                THEN NameLookup(f.entity, f.value) ELSE {NoRef} :
                  dd' = [dd EXCEPT !.idx = @ + 1,
                                   !.conditions = ProcessNameFilter(f, id_result)]
          ELSE dd' = [dd EXCEPT !.idx = @ + 1]
    /\ UNCHANGED <<sideVars, storeVars, taskVars, schemaVars, poolVars, queryVars, parseVars,
                   catalog, ing>>

\* SELECT DISTINCT t.pk, t.name FROM table t INNER JOIN main d
\*   ON d.<table_key>_id = t.pk [WHERE conditions joined with AND]
DropdownItems(table_key, conditions) ==
    {t \in catalog.nav[table_key] :
        \E d \in catalog.rows :
            /\ d[table_key] = t.id
            /\ \A i \in 1..Len(conditions) : d[conditions[i].column] = conditions[i].id}

\* the final query, once the loop over the filters is over
FetchItems ==
    /\ dd.at = "filters"
    /\ dd.idx > Len(dd.filter_dict)
    /\ dd' = [dd EXCEPT !.at = "done",
                        !.data = DropdownItems(dd.table_key, dd.conditions)]
    /\ UNCHANGED <<sideVars, storeVars, taskVars, schemaVars, poolVars, queryVars, parseVars,
                   catalog, ing>>

InitDropdown ==
    /\ InitStore /\ TasksIdle /\ SchemaIdle /\ PoolIdle /\ QueryIdle /\ ParseIdle /\ SideIdle
    /\ ing = NoIngest
    /\ catalog \in {c \in Catalogs : ValidCatalog(c)}
    /\ \E table_key \in DropdownKeys \cup {"software"}, filter_dict \in FilterDicts :
          dd = DropdownRequest(table_key, filter_dict)

NextDropdown == CheckTableKey \/ ProcessFilter \/ FetchItems

SpecDropdown == InitDropdown /\ [][NextDropdown]_vars

(***************************************************************************)
(* Ingestion of one record by its path (SpecPath): the navigation entities *)
(* named by the path's components, then the main row that references them. *)
(* A component is the sequence of its pieces, so that "StageAEvents" is    *)
(* <<"StageA", "Events">>.                                                 *)
(***************************************************************************)
\* the components after which _parse_path_components reads nothing
PathDepth == 9

\* /a/b/c/d/EE/e/<stage>/Camp1/Det1
ExampleNames(stage) ==
    << <<"a">>, <<"b">>, <<"c">>, <<"d">>, <<"EE">>, <<"e">>, stage, <<"Camp1">>,
       <<"Det1">> >>
StageNames == {<<"StageA", "Events">>, <<"Events", "StageA", "Events">>, <<"Events">>}

\* a path: whether it starts at the root, and its named components
PathOf(absolute, names) == [absolute |-> absolute, names |-> names]
Paths ==
    {PathOf(absolute, SubSeq(ExampleNames(stage), 1, n)) :
        absolute \in BOOLEAN, stage \in StageNames, n \in 0..PathDepth}

\* Path(path).parts: the root of an absolute path is a part of its own
PathParts(path) ==
    IF path.absolute THEN << <<"/">> >> \o path.names ELSE path.names

\* path_parts[i] of Python (from 0) if len(path_parts) > i else None
PartAt(path_parts, i) == IF Len(path_parts) > i THEN path_parts[i + 1] ELSE <<>>

\* str.replace("Events", ""): every occurrence goes
ReplaceEvents(component) == SelectSeq(component, LAMBDA piece : piece # "Events")

\* _parse_path_components
ParsePathComponents(path) ==
    [accelerator |-> PartAt(PathParts(path), 4),
     stage |-> ReplaceEvents(PartAt(PathParts(path), 6)),
     campaign |-> PartAt(PathParts(path), 7),
     detector |-> PartAt(PathParts(path), 8)]

\* the order of _create_entities_from_path_components
EntityOrder == <<"accelerator", "stage", "campaign", "detector">>
NoForeignKeys == [k \in NavKeys |-> NoRef]

IngestRequest(name, path) ==
    [at |-> "start", name |-> name, path |-> path,
     components |-> [k \in NavKeys |-> <<>>], idx |-> 1, fk |-> NoForeignKeys]

\* _create_navigation_entities up to the first entity: a record without path
\* keeps null references
ParsePath ==
    /\ ing.at = "start"
    /\ ing' = IF ing.path = PathOf(FALSE, <<>>)
              THEN [ing EXCEPT !.at = "main"]
              ELSE [ing EXCEPT !.at = "entities",
                               !.components = ParsePathComponents(ing.path)]
    /\ UNCHANGED <<sideVars, storeVars, taskVars, schemaVars, poolVars, queryVars, parseVars,
                   catalog, dd>>

NextNavId(table) == Cardinality(table) + 1

\* one entity of _create_entities_from_path_components: skipped without a
\* name (and, for the detector, without an accelerator), else the row of that
\* name is looked up and inserted if there is none (_get_or_create_entity)
GetOrCreateEntity ==
    /\ ing.at = "entities"
    /\ LET key == EntityOrder[ing.idx]
           name == ing.components[key]
           found == {row \in catalog.nav[key] : row.name = name}
           wanted == name # <<>> /\ (key = "detector" => ing.fk["accelerator"] # NoRef)
           id == IF found # {} THEN (CHOOSE row \in found : TRUE).id
                 ELSE NextNavId(catalog.nav[key])
       IN /\ catalog' = IF wanted /\ found = {}
                        THEN [catalog EXCEPT !.nav[key] = @ \cup {[id |-> id, name |-> name]}]
                        ELSE catalog
          /\ ing' = [ing EXCEPT !.fk[key] = IF wanted THEN id ELSE NoRef,
                                !.idx = @ + 1,
                                !.at = IF ing.idx = Len(EntityOrder) THEN "main"
                                       ELSE "entities"]
    /\ UNCHANGED <<sideVars, storeVars, taskVars, schemaVars, poolVars, queryVars, parseVars, dd>>

\* the upsert of the main row with the foreign keys found
CreateMainEntity ==
    /\ ing.at = "main"
    /\ catalog' = [catalog EXCEPT !.rows =
                      {row \in @ : row.name # ing.name}
                      \cup {[name |-> ing.name, accelerator |-> ing.fk["accelerator"],
                             stage |-> ing.fk["stage"], campaign |-> ing.fk["campaign"],
                             detector |-> ing.fk["detector"]]}]
    /\ ing' = [ing EXCEPT !.at = "done"]
    /\ UNCHANGED <<sideVars, storeVars, taskVars, schemaVars, poolVars, queryVars, parseVars, dd>>

InitPath ==
    /\ InitStore /\ TasksIdle /\ SchemaIdle /\ PoolIdle /\ QueryIdle /\ ParseIdle /\ SideIdle
    /\ dd = NoDropdown
    /\ catalog \in {EmptyCatalog,
                    [EmptyCatalog EXCEPT !.nav["accelerator"] =
                        {[id |-> 1, name |-> <<"EE">>]}]}
    /\ \E path \in Paths : ing = IngestRequest("X", path)

NextPath == ParsePath \/ GetOrCreateEntity \/ CreateMainEntity

SpecPath == InitPath /\ [][NextPath]_vars

(***************************************************************************)
(* Field.to_sql, the existence test and the ORDER BY field, for one field   *)
(* name under a schema mapping and a catalog of metadata keys.             *)
(***************************************************************************)
\* field: IDENTIFIER ("." IDENTIFIER)*
FieldParts ==
    {<<"name">>, <<"size">>, <<"file_name">>, <<"accelerator">>,
     <<"accelerator_name">>, <<"stage">>, <<"metadata">>, <<"metadata", "k">>,
     <<"metadata", "a", "b">>, <<"k">>, <<"a", "b">>, <<"sample_name">>}

\* _build_navigation_aliases for these tables: the alias and the name column
NavigationMapping(keys) ==
    [key \in keys |-> IF key = "accelerator" THEN <<"acc.", "name">>
                      ELSE <<"sta.", "name">>]

\* generate_schema_mapping over a main table that references no navigation
\* table, one, or two
SchemaMappings ==
    {NavigationMapping(keys) @@ SchemaMapping :
        keys \in {{}, {"accelerator"}, {"accelerator", "stage"}}}

\* _fetch_available_metadata_fields: top-level keys and parent.child keys
MetadataCatalogs ==
    {{}, {"k", "a", "a.b"}, {"k", "name", "sample_name"}}

FieldCall(parts, schema_mapping, available) ==
    [at |-> "start", parts |-> parts, schema_mapping |-> schema_mapping,
     available |-> available]

\* node.field.to_sql(...) of a comparison with a string
ToSqlCall ==
    /\ call.at = "start"
    /\ call' = [at |-> "to_sql", parts |-> call.parts,
                schema_mapping |-> call.schema_mapping, available |-> call.available,
                sql |-> ToSqlIn(call.schema_mapping, call.parts, call.available)]
    /\ UNCHANGED <<storeVars, taskVars, schemaVars, poolVars, queryVars, parseVars,
                   navVars, sess, fw>>

\* _translate_comparison of field:* : to_sql, then _translate_field_exists
FieldExistsCall ==
    /\ call.at = "start"
    /\ call' = [at |-> "exists", parts |-> call.parts,
                schema_mapping |-> call.schema_mapping, available |-> call.available,
                sql_field |-> ToSqlIn(call.schema_mapping, call.parts, call.available),
                exists |-> TranslateFieldExists(call.parts,
                              ToSqlIn(call.schema_mapping, call.parts, call.available),
                              <<>>, 0, call.available)]
    /\ UNCHANGED <<storeVars, taskVars, schemaVars, poolVars, queryVars, parseVars,
                   navVars, sess, fw>>

\* _build_order_by_clause with the field name as sort_by
OrderByCall ==
    /\ call.at = "start"
    /\ call' = [at |-> "order_by", parts |-> call.parts,
                schema_mapping |-> call.schema_mapping, available |-> call.available,
                sql |-> OrderByField(call.parts, call.schema_mapping, call.available)]
    /\ UNCHANGED <<storeVars, taskVars, schemaVars, poolVars, queryVars, parseVars,
                   navVars, sess, fw>>

InitField ==
    /\ InitStore /\ TasksIdle /\ SchemaIdle /\ PoolIdle /\ QueryIdle /\ ParseIdle
    /\ NavIdle /\ sess = [c \in Clients |-> NoSession] /\ WatcherIdle
    /\ \E parts \in FieldParts, schema_mapping \in SchemaMappings,
          available \in MetadataCatalogs :
          call = FieldCall(parts, schema_mapping, available)

NextField == ToSqlCall \/ FieldExistsCall \/ OrderByCall

SpecField == InitField /\ [][NextField]_vars

(***************************************************************************)
(* The table aliases of the three statements that join the navigation      *)
(* tables to the main table.  An entity key is the sequence of its         *)
(* characters, so that a prefix is computed; a counter is appended as a    *)
(* number.                                                                 *)
(***************************************************************************)
MaxKeys == 3

\* the main table's alias in every statement
MainAlias == <<"d">>

EntityKeys ==
    {<<"s", "t", "a", "g", "e">>, <<"s", "t", "a", "c", "k">>,
     <<"s", "t", "a", "c", "k", "s">>, <<"d", "e", "t", "e", "c", "t", "o", "r">>,
     <<"d">>, <<"r", "u", "n">>}

\* navigation_analysis["navigation_tables"]: the keys in the dict's order
NavigationTables ==
    {keys \in UNION {[1..n -> EntityKeys] : n \in 0..MaxKeys} :
        \A i, j \in 1..Len(keys) : i # j => keys[i] # keys[j]}

\* entity_key[:n]
Prefix(entity_key, n) ==
    SubSeq(entity_key, 1, IF n < Len(entity_key) THEN n ELSE Len(entity_key))

\* while f"{base_alias}{counter}" in used_aliases: counter += 1
RECURSIVE Numbered(_, _, _)
Numbered(base_alias, counter, used_aliases) ==
    IF Append(base_alias, counter) \in used_aliases
    THEN Numbered(base_alias, counter + 1, used_aliases)
    ELSE Append(base_alias, counter)

LongerPrefix(entity_key, base_alias, used_aliases) ==
    IF base_alias \in used_aliases /\ Len(entity_key) > 3
    THEN Prefix(entity_key, 4) ELSE base_alias

WithCounter(base_alias, used_aliases) ==
    IF base_alias \in used_aliases THEN Numbered(base_alias, 1, used_aliases)
    ELSE base_alias

\* _generate_unique_alias (QueryParser and Database hold the same code)
GenerateUniqueAlias(entity_key, used_aliases) ==
    WithCounter(LongerPrefix(entity_key, Prefix(entity_key, 3), used_aliases),
                used_aliases)

\* used_aliases = {"d"}; for entity_key in navigation_tables: alias = ...;
\* used_aliases.add(alias)
RECURSIVE UniqueAliases(_, _, _)
UniqueAliases(keys, used_aliases, aliases) ==
    IF keys = <<>> THEN aliases
    ELSE UniqueAliases(Tail(keys),
                       used_aliases \cup {GenerateUniqueAlias(Head(keys), used_aliases)},
                       Append(aliases, GenerateUniqueAlias(Head(keys), used_aliases)))

\* table_alias = entity["key"][0]
FirstLetterAliases(keys) == [i \in 1..Len(keys) |-> Prefix(keys[i], 1)]

JoinsCall(navigation_tables) == [at |-> "start", navigation_tables |-> navigation_tables]
Joined(statement, aliases) ==
    [at |-> statement, navigation_tables |-> call.navigation_tables,
     aliases |-> aliases]

\* QueryParser._build_dynamic_joins: the FROM and JOINs of the /query/ search
BuildDynamicJoins ==
    /\ call.at = "start"
    /\ call' = Joined("query", UniqueAliases(call.navigation_tables, {MainAlias}, <<>>))
    /\ UNCHANGED <<storeVars, taskVars, schemaVars, poolVars, queryVars, parseVars,
                   navVars, sess, fw>>

\* get_entities_by_ids: the SELECT with its LEFT JOINs
BuildEntitiesByIdsQuery ==
    /\ call.at = "start"
    /\ call' = Joined("by_ids", UniqueAliases(call.navigation_tables, {MainAlias}, <<>>))
    /\ UNCHANGED <<storeVars, taskVars, schemaVars, poolVars, queryVars, parseVars,
                   navVars, sess, fw>>

\* _build_search_query_parts: the generic search
BuildSearchQueryParts ==
    /\ call.at = "start"
    /\ call' = Joined("generic", FirstLetterAliases(call.navigation_tables))
    /\ UNCHANGED <<storeVars, taskVars, schemaVars, poolVars, queryVars, parseVars,
                   navVars, sess, fw>>

InitJoins ==
    /\ InitStore /\ TasksIdle /\ SchemaIdle /\ PoolIdle /\ QueryIdle /\ ParseIdle
    /\ NavIdle /\ sess = [c \in Clients |-> NoSession] /\ WatcherIdle
    /\ \E navigation_tables \in NavigationTables : call = JoinsCall(navigation_tables)

NextJoins == BuildDynamicJoins \/ BuildEntitiesByIdsQuery \/ BuildSearchQueryParts

SpecJoins == InitJoins /\ [][NextJoins]_vars

(***************************************************************************)
(* update_entity and the dropdown endpoint as users of the connection      *)
(* pool: each is inside "async with self.session()" when it calls a method *)
(* that opens self.session() again.  pool.acquire() waits while no         *)
(* connection is free.                                                     *)
(***************************************************************************)
Handlers == {"update_entity", "dropdown"}

\* the self.session() blocks a handler enters while it is inside its own:
\* update_entity calls get_entity_by_id, whose get_entities_by_ids opens two
\* in a row; the dropdown endpoint calls Database.get_dropdown_items
InnerSessions(handler) == IF handler = "update_entity" THEN 2 ELSE 1

ClientRequest(handler) ==
    [handler |-> handler, at |-> "start", held |-> 0, inner |-> InnerSessions(handler)]

RECURSIVE SumHeld(_)
SumHeld(S) ==
    IF S = {} THEN 0
    ELSE LET c == CHOOSE x \in S : TRUE IN sess[c].held + SumHeld(S \ {c})

\* connections of the pool that are not checked out
FreeConnections == PoolSize - SumHeld(Clients)

\* where a handler goes on after a session block is entered or left
Onward(inner) == IF inner > 0 THEN "outer" ELSE "last"

\* async with self.session() as conn: of the handler itself
EnterSession(c) ==
    /\ sess[c].at = "start"
    /\ FreeConnections > 0
    /\ sess' = [sess EXCEPT ![c].held = 1, ![c].at = Onward(sess[c].inner)]
    /\ UNCHANGED <<storeVars, taskVars, schemaVars, poolVars, queryVars, parseVars,
                   navVars, call, fw>>

\* async with self.session() as conn: of the called method, entered while
\* the handler's connection is checked out
EnterInnerSession(c) ==
    /\ sess[c].at = "outer"
    /\ FreeConnections > 0
    /\ sess' = [sess EXCEPT ![c].held = 2, ![c].at = "inner"]
    /\ UNCHANGED <<storeVars, taskVars, schemaVars, poolVars, queryVars, parseVars,
                   navVars, call, fw>>

\* the called method's queries, then __aexit__ of its session
LeaveInnerSession(c) ==
    /\ sess[c].at = "inner"
    /\ sess' = [sess EXCEPT ![c].held = 1, ![c].inner = @ - 1,
                             ![c].at = Onward(sess[c].inner - 1)]
    /\ UNCHANGED <<storeVars, taskVars, schemaVars, poolVars, queryVars, parseVars,
                   navVars, call, fw>>

\* the handler returns: COMMIT for update_entity, then __aexit__
LeaveSession(c) ==
    /\ sess[c].at = "last"
    /\ sess' = [sess EXCEPT ![c].held = 0, ![c].at = "done"]
    /\ UNCHANGED <<storeVars, taskVars, schemaVars, poolVars, queryVars, parseVars,
                   navVars, call, fw>>

InitNested ==
    /\ InitStore /\ TasksIdle /\ SchemaIdle /\ PoolIdle /\ QueryIdle /\ ParseIdle
    /\ NavIdle /\ call = NoCall /\ WatcherIdle
    /\ \E handlers \in [Clients -> Handlers] :
          sess = [c \in Clients |-> ClientRequest(handlers[c])]

ClientStep(c) ==
    \/ EnterSession(c)
    \/ EnterInnerSession(c)
    \/ LeaveInnerSession(c)
    \/ LeaveSession(c)

NextNested == \E c \in Clients : ClientStep(c)

\* every request keeps running: a query it awaits completes, and
\* pool.acquire() returns once a connection stays free
SpecNested ==
    InitNested /\ [][NextNested]_vars /\ \A c \in Clients : WF_vars(ClientStep(c))

(***************************************************************************)
(* The polling file watcher.  A file is its st_mtime in whole seconds, 0   *)
(* for a file that is not there; _known_files maps a path to an mtime, 0   *)
(* for a path it does not hold.                                            *)
(***************************************************************************)
MaxMtime == 3
Mtimes == 1..MaxMtime

\* abs(current_mtime - known_mtime) < 1.0
MtimeTolerance == 1
Distance(a, b) == IF a < b THEN b - a ELSE a - b

\* a JSON file is written into the watched directory, or written again
WriteFile(f) ==
    /\ \E mtime \in Mtimes :
          /\ mtime > fw.disk[f]
          /\ fw' = [fw EXCEPT !.disk[f] = mtime]
    /\ UNCHANGED <<storeVars, taskVars, schemaVars, poolVars, queryVars, parseVars,
                   navVars, call, sess>>

\* _poll_directory_changes: the files whose mtime is not the known one
Changes == {f \in WatchedFiles : fw.disk[f] # 0 /\ fw.known[f] # fw.disk[f]}

\* self._known_files after a polling cycle
KnownAfterPoll(changes) == fw.disk

\* one cycle of _watch_files: _poll_directory_changes, then _handle_file_change
\* for each change, which cancels the pending task of the file and creates
\* the task _process_file_with_delay
PollCycle ==
    /\ fw' = [fw EXCEPT
                 !.known = KnownAfterPoll(Changes),
                 !.pending = @ \cup Changes,
                 !.detected = [f \in WatchedFiles |->
                                 IF f \in Changes THEN fw.disk[f] ELSE @[f]]]
    /\ UNCHANGED <<storeVars, taskVars, schemaVars, poolVars, queryVars, parseVars,
                   navVars, call, sess>>

\* _process_file skips a file whose mtime is within the tolerance of the
\* known one
Unchanged(f) ==
    fw.known[f] # 0 /\ Distance(fw.disk[f], fw.known[f]) < MtimeTolerance

\* _process_file_with_delay once the debounce delay is over: _process_file,
\* then the file leaves _pending_files.  import_fcc_dict is called on the
\* content of a file that is there and not skipped; _known_files takes the
\* mtime when the import succeeds.
ProcessFile(f) ==
    /\ f \in fw.pending
    /\ \/ /\ fw.disk[f] = 0 \/ Unchanged(f)
          /\ fw' = [fw EXCEPT !.pending = @ \ {f}]
       \/ /\ fw.disk[f] # 0 /\ ~Unchanged(f)
          /\ \E succeeds \in BOOLEAN :
                fw' = [fw EXCEPT
                         !.pending = @ \ {f},
                         !.imported[f] = fw.disk[f],
                         !.known[f] = IF succeeds THEN fw.disk[f] ELSE @]
    /\ UNCHANGED <<storeVars, taskVars, schemaVars, poolVars, queryVars, parseVars,
                   navVars, call, sess>>

\* the watcher starts with no saved state, or with the state a run that
\* handled the files of the directory has saved
InitWatcher ==
    /\ InitStore /\ TasksIdle /\ SchemaIdle /\ PoolIdle /\ QueryIdle /\ ParseIdle
    /\ NavIdle /\ call = NoCall /\ sess = [c \in Clients |-> NoSession]
    /\ \E disk \in [WatchedFiles -> {0, 1}], known \in [WatchedFiles -> {0, 1}] :
          /\ known \in {NoFiles, disk}
          /\ fw = [disk |-> disk, known |-> known, pending |-> {},
                   detected |-> NoFiles, imported |-> NoFiles]

NextWatcher ==
    \/ \E f \in WatchedFiles : WriteFile(f)
    \/ PollCycle
    \/ \E f \in WatchedFiles : ProcessFile(f)

\* the loop of _watch_files polls again after each polling_interval, and a
\* task created for a file runs when its debounce_delay is over
SpecWatcher ==
    /\ InitWatcher /\ [][NextWatcher]_vars
    /\ WF_vars(PollCycle)
    /\ \A f \in WatchedFiles : WF_vars(ProcessFile(f))

(***************************************************************************)
(* Claims about the lock-aware merges, checked under SpecMerge.            *)
(***************************************************************************)
Stored(table, n, k) == IF table[n].present THEN Get(table[n].meta, k, "absent") ELSE "absent"

IngestStepOn(n) == last'.kind = "ingest" /\ last'.name = n

\* C1: when row n stores __f__lock__ = true, ingesting a record named n whose
\* payload carries another value for f leaves the stored value of f unchanged.
C1_LockedFieldKeptByIngest ==
    [][\A n \in Names, f \in Fields :
          ( /\ Stored(main, n, LockFieldName(f)) = "true"
            /\ IngestStepOn(n)
            /\ f \in DOMAIN last'.payload
            /\ last'.payload[f] # Stored(main, n, f) )
          => Stored(main', n, f) = Stored(main, n, f)]_vars

\* The same statement for the ingestions whose ILIKE lookup returned the row
\* that is then written (the merge itself honours the lock).
LockedFieldKeptWhenOwnRowRead ==
    [][\A n \in Names, f \in Fields :
          ( /\ Stored(main, n, LockFieldName(f)) = "true"
            /\ IngestStepOn(n)
            /\ last'.source = n )
          => Stored(main', n, f) = Stored(main, n, f)]_vars

\* C3: ingesting the same record a second time leaves the stored metadata as the
\* first ingestion left it (both ingestions read the row they write).
C3_ReingestIsNoOp ==
    [][( /\ last.kind = "ingest"
         /\ last.source \in {"none", last.name}
         /\ last'.kind = "ingest"
         /\ last'.name = last.name
         /\ last'.payload = last.payload
         /\ last'.source = last.name )
       => main'[last.name] = main[last.name]]_vars

\* C4: in a merge (ingestion or update_entity) a sentinel given as true is stored
\* as true, and a sentinel given as null is absent from the merged metadata.
C4_NullRemovesSentinel ==
    (last.kind # "none" /\ last.source # "none") =>
        \A k \in DOMAIN last.payload :
            IsLockField(k) =>
                /\ last.payload[k] = "true" => Get(last.merged, k, "absent") = "true"
                /\ last.payload[k] = "null" => k \notin DOMAIN last.merged

WrittenBy(t) ==
    {n \in Names : main[n].present /\ main[n].by = t}
NavWrittenBy(t) == {e \in NavNames : nav[e] = t}
LockCommitted(n) ==
    \E u \in Tasks : /\ req[u].kind = "update" /\ req[u].name = n
                     /\ pc[u] = "done" /\ out[u] = "ok"
IngestCommits(t) ==
    /\ req[t].kind = "import"
    /\ pc[t] = "validate" /\ pc'[t] = "done" /\ out'[t] = "ok"
OnlyRow(table, n) == \A m \in Names \ {n} : ~table[m].present

\* C2: once the lock request on row n has committed, an ingestion that
\* commits afterwards neither changes the value of f nor removes the
\* __f__lock__ sentinel (n being the only row, so the name lookup is exact).
C2_CommittedLockSurvivesIngest ==
    [][\A t \in Tasks, n \in Names :
         ( /\ IngestCommits(t)
           /\ LockCommitted(n)
           /\ OnlyRow(main, n) /\ OnlyRow(main', n)
           /\ Stored(main, n, LockFieldName(KeyF)) = "true" )
         => /\ Stored(main', n, KeyF) = Stored(main, n, KeyF)
            /\ Stored(main', n, LockFieldName(KeyF)) = "true"]_vars

\* C6: nothing of a batch is in the store before its transaction ends; the
\* import raises exactly when strictly more than half of the batch failed,
\* and after it raised no main row and no navigation row written by the
\* batch is in the store.
C6_BatchAtomicAndThreshold ==
    \A t \in Tasks :
        req[t].kind = "import" =>
            /\ pc[t] # "done" => (WrittenBy(t) = {} /\ NavWrittenBy(t) = {})
            /\ pc[t] = "done" =>
                /\ loc[t].processed + loc[t].failed = Len(Batch(t))
                /\ out[t] = "raised" <=> 2 * loc[t].failed > Len(Batch(t))
                /\ out[t] = "raised" => (WrittenBy(t) = {} /\ NavWrittenBy(t) = {})
                /\ tx[t] = NoTx

\* an import raised after one of its records had been upserted
C6_Witness ==
    \E t \in Tasks :
        /\ req[t].kind = "import" /\ pc[t] = "done" /\ out[t] = "raised"
        /\ loc[t].processed >= 1
        /\ 2 * loc[t].failed > Len(Batch(t))
        /\ WrittenBy(t) = {}

\* C7: the ingestion whose INSERT hit the UNIQUE violation re-selects and
\* goes on with the id of the navigation row the other ingestion created.
C7_LoserReselectsWinnerId ==
    [][\A t \in Tasks :
         (pc[t] = "navReselect" /\ pc'[t] # "navReselect")
         => /\ pc'[t] = "mainSelect"
            /\ loc'[t].fk = [name |-> Rec(t).nav, id |-> nav[Rec(t).nav]]]_vars

(***************************************************************************)
(* Claims about the schema bootstrap, checked under SpecSchema.            *)
(***************************************************************************)
InCriticalSection(r) == rpc[r] \in {"check", "ddl", "unlock"}
SetupsFinishedCleanly ==
    \A r \in Replicas : rpc[r] = "done" /\ rloc[r].outcome = "ok"
NoDdlFailure == \A r \in Replicas : rloc[r].outcome \notin {"error", "raised"}
Range(seq) == {seq[i] : i \in 1..Len(seq)}

\* C8: with the schema not applied at the start, replicas hold the
\* advisory lock one at a time; as long as no DDL run raises, the DDL is
\* executed at most once, by the first replica that took the lock; and once
\* every replica has finished setup the DDL has been executed exactly once
\* and every other replica has seen the sentinel and skipped it.
C8_DdlExecutedByExactlyOne ==
    /\ Cardinality({r \in Replicas : InCriticalSection(r)}) <= 1
    /\ \A r \in Replicas :
         InCriticalSection(r) <=> advisoryLock[SCHEMA_ADVISORY_LOCK_ID] = r
    /\ NoDdlFailure =>
         /\ Len(ddlLog) <= 1
         /\ Len(ddlLog) = 1 => ddlLog[1] = lockLog[1]
    /\ SetupsFinishedCleanly =>
         /\ Len(ddlLog) = 1
         /\ \A r \in Replicas \ Range(ddlLog) : rloc[r].schema_applied = "yes"

\* three replicas finished setup, one of them having executed the DDL
C8_Witness ==
    /\ SetupsFinishedCleanly
    /\ Len(lockLog) = Cardinality(Replicas)
    /\ Len(ddlLog) = 1
    /\ SchemaSentinel \in pgProc

\* C20: a replica that has left _apply_schema_with_lock, by return or by an
\* exception of the sentinel check or of the DDL, does not hold the advisory
\* lock, and every replica that waits for the lock eventually holds it.
C20_LockReleasedAndAcquired ==
    /\ [](\A r \in Replicas :
            rpc[r] = "done" => advisoryLock[SCHEMA_ADVISORY_LOCK_ID] # r)
    /\ \A r \in Replicas :
          (rpc[r] = "lock") ~> (advisoryLock[SCHEMA_ADVISORY_LOCK_ID] = r)

\* the sentinel check of the first holder raised, the DDL of the second
\* raised, and the third replica holds the lock
C20_Witness ==
    /\ Len(lockLog) = 3
    /\ rloc[lockLog[1]].outcome = "raised" /\ rloc[lockLog[1]].schema_applied = "unset"
    /\ rloc[lockLog[2]].outcome = "raised" /\ rloc[lockLog[2]].schema_applied = "no"
    /\ advisoryLock[SCHEMA_ADVISORY_LOCK_ID] = lockLog[3]

(***************************************************************************)
(* Claims about the connection pool, checked under SpecPool.               *)
(***************************************************************************)
\* C9: a request that has left the session block holds no connection,
\* whether it returned, raised or was cancelled; only requests inside the
\* block hold one; once every request has finished, no connection is
\* checked out.
C9_ConnectionReleasedOnEveryExit ==
    /\ \A q \in Requests : qpc[q] = "done" => q \notin checkedOut
    /\ \A q \in checkedOut : qpc[q] \in {"count", "fetch", "exit"}
    /\ Cardinality(checkedOut) <= PoolSize
    /\ (\A q \in Requests : qpc[q] = "done") => checkedOut = {}

\* all requests finished: one returned, one raised and one was cancelled,
\* each after it had acquired a connection
C9_Witness ==
    /\ \A q \in Requests : qpc[q] = "done" /\ qloc[q].connection
    /\ {qloc[q].outcome : q \in Requests} = {"returned", "raised", "cancelled"}
    /\ checkedOut = {}

(***************************************************************************)
(* Claims about the query translator, checked under SpecQuery.             *)
(***************************************************************************)
IsPlaceholder(token) == \E k \in 1..Len(PlaceholderTexts) : token = PlaceholderTexts[k]
PlaceholdersOf(sql) == SelectSeq(sql, IsPlaceholder)

\* each placeholder once, in the order of its first appearance
RECURSIVE FirstAppearances(_, _)
FirstAppearances(tokens, seen) ==
    IF tokens = <<>> THEN <<>>
    ELSE IF Head(tokens) \in seen
    THEN FirstAppearances(Tail(tokens), seen)
    ELSE <<Head(tokens)>> \o FirstAppearances(Tail(tokens), seen \cup {Head(tokens)})

\* C10: the WHERE clause of every translated query uses exactly the
\* placeholders $1..$n, first appearing in that order, where n is the
\* number of params (a global search repeats its one placeholder for every
\* search field), and param_index ends at n.
C10_PlaceholdersMatchParams ==
    translation.done =>
        /\ FirstAppearances(PlaceholdersOf(translation.sql), {})
             = [i \in 1..Len(translation.params) |-> PlaceholderTexts[i]]
        /\ translation.param_index = Len(translation.params)

\* a query joining the value-less last_edited_at form, a global search
\* and a negated field:* under And / Or was translated with two params
C10_Witness ==
    /\ translation.done
    /\ translation.ast.type = "And"
    /\ translation.ast.left = Comparison(<<"last_edited_at">>, ":", NoValue)
    /\ translation.ast.right.type = "Or"
    /\ translation.ast.right.left = GlobalSearch("x", FALSE)
    /\ translation.ast.right.right.type = "Comparison"
    /\ translation.ast.right.right.value = Str("*")
    /\ Len(translation.params) = 2
    /\ Len(PlaceholdersOf(translation.sql)) = 3

(***************************************************************************)
(* Claims about parse_query on query text, checked under SpecParse and     *)
(* SpecOrder.                                                              *)
(***************************************************************************)
Answered(r) == preq[r].at \in {"search", "done"}
ValidSortOrder(sort_order) == SortLower(sort_order) \in {"asc", "desc"}

RaisesOnlyValueError(sort_order, raised) ==
    /\ raised \in {"none", "ValueError"}
    /\ raised = "ValueError" <=> ~ValidSortOrder(sort_order)

\* C11: whatever the query string, parse_query returns its three results or
\* raises the sort_order validation error, and only for an invalid sort_order;
\* a LarkError of the whole query or of a part never leaves it, so a request
\* ends with an answer or with the HTTP 400 of an invalid sort_order.
C11_ParseFailureNeverPropagates ==
    \A r \in ParseRequests :
        /\ RaisesOnlyValueError(preq[r].sort_order,
                ParseQueryOutcome(preq[r].q, preq[r].sort_by, preq[r].sort_order,
                                  parser.available).raised)
        /\ preq[r].at = "raised" =>
              preq[r].raised = "HTTP400" /\ ~ValidSortOrder(preq[r].sort_order)
        /\ Answered(r) => preq[r].raised = "none"

SomePartParsesAndSomeNot(parts) ==
    /\ \E i \in 1..Len(parts) : ParsePart(parts[i]).ok
    /\ \E i \in 1..Len(parts) : ~ParsePart(parts[i]).ok

\* a rescued query with a part that parsed and a part that did not
C11_Witness ==
    /\ Answered("A") /\ preq["A"].path = "hybrid"
    /\ SomePartParsesAndSomeNot(Split(Flatten(preq["A"].q), 1, <<>>, FALSE))

SameTranslation(request, o) ==
    request.where = o.where /\ request.returned = o.params

\* C12: the WHERE clause and the params a request gets are the ones a
\* translator that has translated nothing yet produces for the same query.
C12_TranslationIndependentOfHistory ==
    \A r \in ParseRequests :
        Answered(r) =>
            SameTranslation(preq[r],
                ParseQueryOutcome(preq[r].q, preq[r].sort_by,
                                  SortLower(preq[r].sort_order),
                                  FreshTranslator.available))

\* C13: the list a suspended request holds, and the list it passes to
\* perform_search, has the contents parse_query returned to it, whatever the
\* other request parsed in between.
C13_ParamsListIsTheRequestsOwn ==
    \A r \in ParseRequests :
        /\ preq[r].at = "search" => lists[preq[r].params] = preq[r].returned
        /\ preq[r].at = "done" => preq[r].passed = preq[r].returned

\* A holds the translator's own list (strict path) and is suspended while B,
\* called after it, has reset the translator and translated other params
C13_Witness ==
    /\ preq["A"].at = "search" /\ preq["B"].at = "search"
    /\ preq["A"].path = "strict" /\ preq["B"].path = "strict"
    /\ preq["A"].params < preq["B"].params
    /\ preq["A"].returned # <<>> /\ preq["A"].returned # preq["B"].returned

\* the direction a request asks for
Direction(sort_order) == IF SortLower(sort_order) = "asc" THEN "ASC" ELSE "DESC"

\* ORDER BY <sort field> <direction>, d.<primary key> <direction>
OrdersByFieldThenKey(order, direction) ==
    /\ Len(order) >= 7
    /\ order[1] = "ORDER BY"
    /\ \A i \in 2..(Len(order) - 5) : order[i] \notin {",", "ASC", "DESC"}
    /\ SubSeq(order, Len(order) - 4, Len(order))
           = <<direction, ",", "d.", MainPrimaryKey, direction>>

\* C16: the SELECT of every answered request, whether its query was empty,
\* strictly parsed or rescued and whatever its sort_by, orders by the sort
\* field and then by the main table's primary key, both in the direction asked.
C16_OrderByEndsWithPrimaryKey ==
    \A r \in ParseRequests :
        Answered(r) => OrdersByFieldThenKey(preq[r].order, Direction(preq[r].sort_order))

\* a rescued query sorted by a nested metadata key, and an empty one
C16_Witness ==
    /\ Answered("A") /\ preq["A"].path = "hybrid"
    /\ preq["A"].sort_by = <<"metadata", "a", "b">> /\ preq["A"].sort_order = "asc"
    /\ Answered("B") /\ preq["B"].path = "empty"

\* the quoted strings a user may write as a comparand or as a search term
QuotedValues == {Quoted(<<"x", "y">>), Quoted(<<"x", "and", "y">>)}

\* the queries that differ from query in one quoted string only
Siblings(query) ==
    {[query EXCEPT ![i] = value] :
        i \in {j \in 1..Len(query) : query[j] \in QuotedValues},
        value \in QuotedValues}

SameWhere(o, sibling) == o.path = sibling.path /\ o.where = sibling.where

\* C19: a query and the query that differs from it in one quoted string get
\* the same WHERE text from parse_query, on the strict and on the hybrid path
\* and whatever metadata keys the translator holds.
C19_ValuesOnlyInParams ==
    \A r \in ParseRequests :
        Answered(r) =>
            \A sibling \in Siblings(preq[r].q), available \in SUBSET AvailableMetadataFields :
                SameWhere(ParseQueryOutcome(preq[r].q, preq[r].sort_by, "desc", available),
                          ParseQueryOutcome(sibling, preq[r].sort_by, "desc", available))

(***************************************************************************)
(* Claims about the dropdowns, checked under SpecDropdown.                 *)
(***************************************************************************)
\* a filter on <entity>_name whose value matches no row of that table
Unresolvable(f) ==
    /\ f.suffix = "_name" /\ f.entity \in NavKeys
    /\ \A row \in catalog.nav[f.entity] : ~ILike(row.name, f.value)

\* C14: a dropdown request with a _name filter whose value matches no row of
\* its navigation table raises nothing and returns an empty list.
C14_UnresolvableFilterGivesEmptyList ==
    (/\ dd.at \in {"done", "raised"}
     /\ dd.table_key \in NavKeys
     /\ \E i \in 1..Len(dd.filter_dict) : Unresolvable(dd.filter_dict[i]))
    => dd.at = "done" /\ dd.data = {}

\* C15: the dropdown for B filtered by A_name = a holds only entries b for
\* which a main row references both b and an A entity whose name matches a.
C15_DropdownOnlyCoOccurring ==
    (/\ dd.at = "done"
     /\ Len(dd.filter_dict) = 1
     /\ dd.filter_dict[1].suffix = "_name"
     /\ dd.filter_dict[1].entity \in NavKeys)
    => \A b \in dd.data :
          \E d \in catalog.rows, a \in catalog.nav[dd.filter_dict[1].entity] :
              /\ ILike(a.name, dd.filter_dict[1].value)
              /\ d[dd.filter_dict[1].entity] = a.id
              /\ d[dd.table_key] = b.id

\* C18: after a UNIQUE violation of the main upsert, with fewer than
\* MaxConflicts attempts made, the record is tried again under its new name:
\* the next thing ingestion does for it is the upsert's lookup followed by the
\* upsert itself, not the failure of the record.
C18_ConflictIsRetriedUnderNewName ==
    [][\A t \in Tasks :
          (/\ pc[t] = "mainSelect"
           /\ loc[t].conflict_counter > 1
           /\ loc'[t] # loc[t])
          => pc'[t] = "mainUpsert"]_vars

(***************************************************************************)
(* Claim about ingestion by path, checked under SpecPath.                  *)
(***************************************************************************)
Named(key, name) == {row.id : row \in {n \in catalog.nav[key] : n.name = name}}

\* C17: once the record X with path /a/b/c/d/EE/e/StageAEvents/Camp1/Det1 is
\* ingested, accelerator EE, stage StageA, campaign Camp1 and detector Det1
\* exist and the main row X references them.
C17_ExamplePathCreatesEntities ==
    (/\ ing.at = "done"
     /\ ing.path = PathOf(TRUE, ExampleNames(<<"StageA", "Events">>)))
    => \E row \in catalog.rows :
          /\ row.name = "X"
          /\ row.accelerator \in Named("accelerator", <<"EE">>)
          /\ row.stage \in Named("stage", <<"StageA">>)
          /\ row.campaign \in Named("campaign", <<"Camp1">>)
          /\ row.detector \in Named("detector", <<"Det1">>)

(***************************************************************************)
(* Claims about the hybrid path, checked under SpecParse.                  *)
(***************************************************************************)
PlaceholderNumber(token) == CHOOSE k \in 1..Len(PlaceholderTexts) : token = PlaceholderTexts[k]

\* a clause translated on its own, written after offset params
Renumbered(sql, offset) ==
    [i \in 1..Len(sql) |->
        IF IsPlaceholder(sql[i]) THEN Placeholder(PlaceholderNumber(sql[i]) + offset)
        ELSE sql[i]]

NothingExpected == [clauses |-> <<>>, params |-> <<>>, residue |-> <<>>]

ExpectedClause(expected, t) ==
    [expected EXCEPT !.clauses = Append(@, Renumbered(t.sql, Len(expected.params))),
                     !.params = @ \o t.params]

ExpectedResidue(expected, part) ==
    [expected EXCEPT !.residue = @ \o [j \in 1..Len(part) |-> SourceText(part[j])]]

ExpectedPart(expected, part, parsed, available) ==
    IF parsed.ok THEN ExpectedClause(expected, Translate(parsed.ast, <<>>, 0, available))
    ELSE ExpectedResidue(expected, part)

\* the parts taken one by one, each translated on its own
RECURSIVE ExpectedParts(_, _, _, _)
ExpectedParts(parts, i, expected, available) ==
    IF i > Len(parts) THEN expected
    ELSE ExpectedParts(parts, i + 1,
                       ExpectedPart(expected, parts[i], ParsePart(parts[i]), available),
                       available)

\* the residue as one global-search value
WithResidue(expected, is_quoted, available) ==
    IF expected.residue = <<>> THEN expected
    ELSE ExpectedClause(expected,
            Translate(GlobalSearch(JoinSpace(expected.residue), is_quoted), <<>>, 0,
                      available))

ExpectedWhere(clauses) ==
    IF clauses = <<>> THEN <<"TRUE">> ELSE <<"(">> \o JoinAnd(clauses) \o <<")">>

IsExpected(request, expected) ==
    /\ request.where = ExpectedWhere(expected.clauses)
    /\ request.returned = expected.params

HybridAsSpecified(request, available) ==
    IsExpected(request,
               WithResidue(ExpectedParts(Split(Flatten(request.q), 1, <<>>, FALSE), 1,
                                         NothingExpected, available),
                           HasQuotedString(request.q), available))

\* C21: the WHERE clause of a rescued query is the AND-join, in input order,
\* of the clauses of the parts that parse, each as it is translated on its own
\* and numbered after the params before it, followed by one global-search
\* clause over the space-joined parts that do not parse; it is TRUE when
\* there is no clause; the returned params are those of the clauses in order,
\* and the placeholders of the WHERE are $1..$n for the n params.
C21_HybridWhereIsJoinOfParts ==
    \A r \in ParseRequests :
        (Answered(r) /\ preq[r].path = "hybrid") =>
            /\ \E available \in SUBSET AvailableMetadataFields :
                    HybridAsSpecified(preq[r], available)
            /\ FirstAppearances(PlaceholdersOf(preq[r].where), {})
                  = [i \in 1..Len(preq[r].returned) |-> PlaceholderTexts[i]]

OneParsesAndTwoDoNot(parts) ==
    /\ Len(parts) = 3
    /\ ParsePart(parts[1]).ok /\ ~ParsePart(parts[2]).ok /\ ~ParsePart(parts[3]).ok

\* a rescued query of three parts: the first parsed to a clause with a
\* param, the other two went to the residue
C21_Witness ==
    /\ Answered("A") /\ preq["A"].path = "hybrid"
    /\ OneParsesAndTwoDoNot(Split(Flatten(preq["A"].q), 1, <<>>, FALSE))
    /\ Len(preq["A"].returned) = 2

(***************************************************************************)
(* Claims about field resolution, checked under SpecField.                 *)
(***************************************************************************)
NavigationKeys(schema_mapping) == DOMAIN schema_mapping \ DOMAIN SchemaMapping

\* the table of field resolution, read from its first row down
SpecifiedField(parts, schema_mapping, available) ==
    IF \E key \in NavigationKeys(schema_mapping) : parts[1] \in {key, key \o "_name"}
    THEN schema_mapping[CHOOSE key \in NavigationKeys(schema_mapping) :
                            parts[1] \in {key, key \o "_name"}]
    ELSE IF parts[1] = "metadata" /\ Len(parts) > 1
    THEN JsonField(<<"d.", "metadata">>, Tail(parts))
    ELSE IF parts[1] \in available
    THEN JsonField(<<"d.", "metadata">>, parts)
    ELSE <<"d.", parts[1]>>

\* C22: for every field, schema mapping and catalog of metadata keys, to_sql
\* gives the aliased name column for a navigation key (with or without
\* _name), the JSON path for metadata.<path>, the JSON path metadata.<parts>
\* for a first part in the catalog, and d.<parts[0]> for every other field.
C22_FieldResolvesAsSpecified ==
    call.at = "to_sql" =>
        call.sql = SpecifiedField(call.parts, call.schema_mapping, call.available)

\* an alias and a column: no JSON operator in the expression
IsColumn(sql_field) == \A i \in 1..Len(sql_field) : sql_field[i] \notin {"->", "->>"}

ExistsAsSpecified(parts, sql_field, exists) ==
    IF parts[1] = "metadata" /\ Len(parts) = 2
    THEN /\ exists.sql = <<"d.", "metadata", "?", "$1">>
         /\ exists.params = <<Str(parts[2])>>
    ELSE IF parts[1] = "metadata" /\ Len(parts) > 2
    THEN /\ exists.sql = <<"jsonb_path_exists(", "d.", "metadata", ",", "$1", ")">>
         /\ exists.params = <<[kind |-> "jsonpath", text |-> Tail(parts)]>>
    ELSE IsColumn(sql_field) =>
            /\ exists.sql = sql_field \o <<"IS NOT NULL">>
            /\ exists.params = <<>>

\* C23: field:* is the key-existence test d.metadata ? $1 on x for
\* metadata.x, jsonb_path_exists for a longer metadata path, and
\* <column> IS NOT NULL with no param for every field that to_sql resolves to
\* a column of the main table or of a navigation table, whatever the catalog
\* of metadata keys holds.
C23_ExistenceTestFollowsResolution ==
    call.at = "exists" => ExistsAsSpecified(call.parts, call.sql_field, call.exists)

\* C24: the ORDER BY expression for a sort_by string is the expression
\* to_sql gives for the field of the same name in a comparison with a
\* string, for every field, schema mapping and catalog of metadata keys.
C24_OrderByResolvesLikeTranslator ==
    call.at = "order_by" =>
        call.sql = ToSqlIn(call.schema_mapping, call.parts, call.available)

(***************************************************************************)
(* Claims about the table aliases, checked under SpecJoins.                *)
(***************************************************************************)
AliasesDistinct(aliases) ==
    /\ \A i \in 1..Len(aliases) : aliases[i] # MainAlias
    /\ \A i, j \in 1..Len(aliases) : i # j => aliases[i] # aliases[j]

\* C25: in the /query/ search, in the fetch by ids and in the generic
\* search, for every set of navigation entity keys, no navigation table has
\* the main table's alias d and no two navigation tables have the same alias.
C25_AliasesAreUnique ==
    call.at \in {"query", "by_ids", "generic"} => AliasesDistinct(call.aliases)

\* the same, for the two statements that call _generate_unique_alias
AliasesUniqueWhereGenerated ==
    call.at \in {"query", "by_ids"} => AliasesDistinct(call.aliases)

(***************************************************************************)
(* Claims about what update_entity returns, checked under SpecConc.        *)
(***************************************************************************)
\* C26: when update_entity commits and returns, the metadata in the mapping
\* it returns is the metadata the entity has once the update is applied.
C26_UpdateReturnsUpdatedEntity ==
    [][\A t \in Tasks :
          (pc[t] = "uCommit" /\ pc'[t] = "done") =>
              loc[t].updated_entity.meta = main'[req[t].name].meta]_vars

(***************************************************************************)
(* Claims about the row an ingestion reads, checked under SpecMerge.       *)
(***************************************************************************)
\* C27: when an ingestion found an existing row to merge with, that row is
\* the row of the ingested name, the one INSERT ... ON CONFLICT (name) then
\* updates, for every stored name and ingested name.
C27_ReadRowIsUpsertedRow ==
    (last.kind = "ingest" /\ last.source # "none") => last.source = last.name

(***************************************************************************)
(* Claims about what a returning import has stored, checked under SpecConc. *)
(***************************************************************************)
\* C28: when import_fcc_dict leaves its transaction block without raising,
\* every row its processed records upserted is in the store as upserted.
C28_ProcessedRecordsAreCommitted ==
    [][\A t \in Tasks, n \in Names :
          ( /\ req[t].kind = "import"
            /\ pc[t] = "validate" /\ pc'[t] = "done" /\ out'[t] = "ok"
            /\ tx[t].mainW[n].present )
          => main'[n] = tx[t].mainW[n]]_vars

(***************************************************************************)
(* Claims about nested sessions, checked under SpecNested.                 *)
(***************************************************************************)
WaitsForSecondConnection(c) == sess[c].at = "outer" /\ sess[c].held = 1

\* C29: with a pool of PoolSize connections, any update_entity and dropdown
\* requests running together all eventually complete: none is left waiting
\* for a pooled connection while it holds one.
C29_ConcurrentRequestsComplete ==
    \A c \in Clients : <>(sess[c].at = "done")

\* every connection of the pool is held by a request that waits for another
PoolDeadlock ==
    /\ FreeConnections = 0
    /\ \A c \in Clients : sess[c].held > 0 => WaitsForSecondConnection(c)

(***************************************************************************)
(* Claims about the file watcher, checked under SpecWatcher.               *)
(***************************************************************************)
\* C30: once a polling cycle has detected a file as added or modified, then,
\* unless the file is changed again, import_fcc_dict is eventually called on
\* its content.
C30_DetectedFileIsImported ==
    \A f \in WatchedFiles, mtime \in Mtimes :
        (fw.detected[f] = mtime) ~> (fw.imported[f] = mtime \/ fw.disk[f] # mtime)

\* a detected file has been processed and skipped, and nothing is pending
DetectedAndSkipped ==
    \E f \in WatchedFiles :
        /\ fw.detected[f] # 0 /\ fw.detected[f] = fw.disk[f]
        /\ fw.imported[f] # fw.disk[f]
        /\ fw.pending = {} /\ Changes = {}

====
